---- MODULE Spec2Model ----
(***************************************************************************)
(* Model of pyharnessworkshop.utils.misc.validate_workspace_configuration  *)
(* and its nested helper compare_values (specifications Spec and RecSpec), *)
(* and of get_pipeline_by_id, get_service_by_id,                           *)
(* get_stage_identifier_from_dict, generate_keycloak_token,                *)
(* get_k8s_loadbalancer_ip and generate_password, one specification each.  *)
(*                                                                         *)
(* Python values are tagged records [k, v].  A dict is the sequence of its *)
(* (key, value) entries in insertion order; keys are non-empty strings     *)
(* without dots.  The "message" of a mismatch record keeps the template    *)
(* that produced it, not the interpolated text.                            *)
(***************************************************************************)
EXTENDS Integers, Sequences, FiniteSets, Bags, TLC

VARIABLES workspace_config, workspace_context, mismatches, idx, pc, exc,
          stack, visited,
          fn, args, locals, ret

\* the frames of compare_values still running and the paths it was called with
recVars == <<stack, visited>>
\* a call of one of the other functions: its name, arguments, local
\* variables and outcome
callVars == <<fn, args, locals, ret>>

vars == <<workspace_config, workspace_context, mismatches, idx, pc, exc,
          stack, visited, fn, args, locals, ret>>

\* ------------------------------------------------------------------------
\* Python values
\* ------------------------------------------------------------------------
PyNone == [k |-> "none", v |-> "None"]
PyInt(n) == [k |-> "int", v |-> n]
PyBool(b) == [k |-> "bool", v |-> b]
PyStr(s) == [k |-> "str", v |-> s]
PyList(items) == [k |-> "list", v |-> items]
PyDict(entries) == [k |-> "dict", v |-> entries]
Entry(key, val) == [key |-> key, val |-> val]

IsDict(x) == x.k = "dict"
IsList(x) == x.k = "list"
IsBool(x) == x.k = "bool"
IsStr(x) == x.k = "str"

\* dict.keys(), key in dict, dict[key]
DictKeys(d) == {d.v[i].key : i \in 1..Len(d.v)}
DictGet(d, key) == d.v[CHOOSE i \in 1..Len(d.v) : d.v[i].key = key].val

\* int(x) for the numeric tower: bool is a subclass of int
NumOf(x) == IF x.k = "bool" THEN (IF x.v THEN 1 ELSE 0) ELSE x.v

\* Python's == on configuration values
RECURSIVE PyEq(_, _)
PyEq(x, y) ==
    CASE x.k \in {"int", "bool"} /\ y.k \in {"int", "bool"} -> NumOf(x) = NumOf(y)
      [] x.k = "list" /\ y.k = "list" ->
            /\ Len(x.v) = Len(y.v)
            /\ \A i \in 1..Len(x.v) : PyEq(x.v[i], y.v[i])
      [] x.k = "dict" /\ y.k = "dict" ->
            /\ DictKeys(x) = DictKeys(y)
            /\ \A i \in 1..Len(x.v) : PyEq(x.v[i].val, DictGet(y, x.v[i].key))
      [] OTHER -> x.k = y.k /\ x.v = y.v

\* item in a_list, done wrong: the item compared with the list itself
PyInWholeList(item, lst) == PyEq(item, lst)

\* item in a_list, done wrong: only the first element looked at
PyInFirstOnly(item, lst) == Len(lst.v) >= 1 /\ PyEq(item, lst.v[1])

\* item in a_list
PyIn(item, lst) == \E i \in 1..Len(lst.v) : PyEq(item, lst.v[i])

\* str.lower() left out
StrLowerOmitted(s) == s

\* str.lower() on the strings of the model: the mixed-case ones are listed,
\* every other string of the model is already lower case.
StrLower(s) ==
    CASE s = "True" -> "true"
      [] s = "TRUE" -> "true"
      [] s = "False" -> "false"
      [] s = "FALSE" -> "false"
      [] s = "Build" -> "build"
      [] s = "BUILD" -> "build"
      [] s = "Deploy" -> "deploy"
      [] s = "Run" -> "run"
      [] s = "RUN" -> "run"
      [] s = "Plugin" -> "plugin"
      [] OTHER -> s

\* The characters of the strings of the model; a one-character key is a
\* substring of s exactly when it is one of them.
StrChars(s) ==
    CASE s = "banana" -> {"b", "a", "n"}
      [] s = "true" -> {"t", "r", "u", "e"}
      [] s = "True" -> {"T", "r", "u", "e"}
      [] s = "FALSE" -> {"F", "A", "L", "S", "E"}
      [] s = "1" -> {"1"}
      [] s = "x" -> {"x"}
      [] OTHER -> {}

\* ------------------------------------------------------------------------
\* compare_values
\* ------------------------------------------------------------------------
\* the record with its expected and actual fields swapped
MismatchSwapped(path, expected, actual, message) ==
    [path |-> path, expected |-> actual, actual |-> expected, message |-> message]

Mismatch(path, expected, actual, message) ==
    [path |-> path, expected |-> expected, actual |-> actual, message |-> message]

\* the new path without its parent
NewPathNoParent(path, sub_key) == sub_key

\* f"{path}.{sub_key}" if path else sub_key
NewPath(path, sub_key) == IF path # "" THEN path \o "." \o sub_key ELSE sub_key

\* the loop over the expected list
CompareListItems(path, expected, actual) ==
    LET missing == SelectSeq(expected.v, LAMBDA item : ~PyIn(item, actual))
    IN  [i \in 1..Len(missing) |-> Mismatch(path, missing[i], PyNone, "item_not_found")]

\* the scalar branch
CompareScalar(path, expected, actual) ==
    IF IsBool(actual) /\ IsStr(expected)
    THEN LET expected_bool == PyBool(StrLower(expected.v) = "true")
         IN  IF ~PyEq(actual, expected_bool)
             THEN <<Mismatch(path, expected_bool, actual, "mismatch")>>
             ELSE <<>>
    ELSE IF ~PyEq(actual, expected)
         THEN <<Mismatch(path, expected, actual, "mismatch")>>
         ELSE <<>>

RECURSIVE compare_values(_, _, _)
RECURSIVE CompareDictItems(_, _, _)

\* compare_values without the descent into dicts: a dict compared as a whole
compare_values_whole_dict(path, expected, actual) ==
    IF IsDict(expected)
    THEN IF ~PyEq(actual, expected)
         THEN <<Mismatch(path, expected, actual, "mismatch")>>
         ELSE <<>>
    ELSE IF IsList(expected)
         THEN IF ~IsList(actual)
              THEN <<Mismatch(path, expected, actual, "expected_list")>>
              ELSE CompareListItems(path, expected, actual)
         ELSE CompareScalar(path, expected, actual)

\* compare_values reporting every expected key, or every expected item, as
\* not found when the actual value has another shape
compare_values_per_key(path, expected, actual) ==
    IF IsDict(expected)
    THEN IF ~IsDict(actual)
         THEN [i \in 1..Len(expected.v) |->
                  Mismatch(NewPath(path, expected.v[i].key), expected.v[i].val,
                           PyNone, "key_not_found")]
         ELSE CompareDictItems(path, expected.v, actual)
    ELSE IF IsList(expected)
         THEN IF ~IsList(actual)
              THEN [i \in 1..Len(expected.v) |->
                       Mismatch(path, expected.v[i], PyNone, "item_not_found")]
              ELSE CompareListItems(path, expected, actual)
         ELSE CompareScalar(path, expected, actual)

\* the loop over expected.items(), run from the last key to the first
RECURSIVE CompareDictItemsReversed(_, _, _)
CompareDictItemsReversed(path, entries, actual) ==
    IF entries = <<>>
    THEN <<>>
    ELSE LET sub_key == entries[Len(entries)].key
             sub_expected == entries[Len(entries)].val
             new_path == NewPath(path, sub_key)
         IN  (IF sub_key \notin DictKeys(actual)
              THEN <<Mismatch(new_path, sub_expected, PyNone, "key_not_found")>>
              ELSE compare_values(new_path, sub_expected, DictGet(actual, sub_key)))
             \o CompareDictItemsReversed(path, SubSeq(entries, 1, Len(entries) - 1), actual)

compare_values(path, expected, actual) ==
    IF IsDict(expected)
    THEN IF ~IsDict(actual)
         THEN <<Mismatch(path, expected, actual, "expected_dict")>>
         ELSE CompareDictItems(path, expected.v, actual)
    ELSE IF IsList(expected)
         THEN IF ~IsList(actual)
              THEN <<Mismatch(path, expected, actual, "expected_list")>>
              ELSE CompareListItems(path, expected, actual)
         ELSE CompareScalar(path, expected, actual)

\* the loop over expected.items(), from the entries still to visit
CompareDictItems(path, entries, actual) ==
    IF entries = <<>>
    THEN <<>>
    ELSE LET sub_key == Head(entries).key
             sub_expected == Head(entries).val
             new_path == NewPath(path, sub_key)
         IN  (IF sub_key \notin DictKeys(actual)
              THEN <<Mismatch(new_path, sub_expected, PyNone, "key_not_found")>>
              ELSE compare_values(new_path, sub_expected, DictGet(actual, sub_key)))
             \o CompareDictItems(path, Tail(entries), actual)

\* ------------------------------------------------------------------------
\* validate_workspace_configuration: the top-level loop
\* ------------------------------------------------------------------------
\* key in workspace_config, where that is defined
RootHasIn(config) == config.k \in {"dict", "list", "str"}
RootContains(config, key) ==
    CASE IsDict(config) -> key \in DictKeys(config)
      [] IsList(config) -> PyIn(PyStr(key), config)
      [] IsStr(config) -> key \in StrChars(config.v)
      [] OTHER -> FALSE

\* one iteration of the loop over workspace_context.items(), where neither
\* the membership test nor the subscript raises
RootStep(config, key, expected_value) ==
    IF ~RootContains(config, key)
    THEN <<Mismatch(key, expected_value, PyNone, "root_key_not_found")>>
    ELSE compare_values(key, expected_value, DictGet(config, key))

\* the whole loop, from the entries still to visit
RECURSIVE RootLoop(_, _)
RootLoop(entries, config) ==
    IF entries = <<>>
    THEN <<>>
    ELSE RootStep(config, Head(entries).key, Head(entries).val)
         \o RootLoop(Tail(entries), config)

CurKey == workspace_context.v[idx].key
CurExpected == workspace_context.v[idx].val
InLoop ==
    /\ pc = "loop"
    /\ stack = <<>>
    /\ IsDict(workspace_context)
    /\ idx <= Len(workspace_context.v)

\* the dict without one of its keys, as dict.pop(key) leaves it
RECURSIVE WithoutKey(_, _)
WithoutKey(entries, key) ==
    IF entries = <<>> THEN <<>>
    ELSE IF Head(entries).key = key THEN WithoutKey(Tail(entries), key)
    ELSE <<Head(entries)>> \o WithoutKey(Tail(entries), key)

ConfigAfterStepPopped(config, key) ==
    IF IsDict(config) THEN PyDict(WithoutKey(config.v, key)) ELSE config

\* workspace_config after one iteration: "key not in workspace_config" and
\* workspace_config[key] read the dict, and compare_values reads the value
\* it is handed; nothing is popped, inserted or assigned
ConfigAfterStep(config, key) == config

\* no call of another function is in progress
NoCall ==
    /\ fn = "validate_workspace_configuration"
    /\ args = <<>>
    /\ locals = <<>>
    /\ ret = <<>>

\* workspace_context.items() on a value that is no dict
ItemsAttributeError ==
    /\ pc = "loop"
    /\ ~IsDict(workspace_context)
    /\ pc' = "raised"
    /\ exc' = "AttributeError"
    /\ UNCHANGED <<workspace_config, workspace_context, mismatches, idx>>
    /\ UNCHANGED <<recVars, callVars>>

\* key not in workspace_config / workspace_config[key] on a value that
\* supports neither
RootTypeError ==
    /\ InLoop
    /\ \/ ~RootHasIn(workspace_config)
       \/ ~IsDict(workspace_config) /\ RootContains(workspace_config, CurKey)
    /\ pc' = "raised"
    /\ exc' = "TypeError"
    /\ UNCHANGED <<workspace_config, workspace_context, mismatches, idx>>
    /\ UNCHANGED <<recVars, callVars>>

KeyNotFound ==
    /\ InLoop
    /\ RootHasIn(workspace_config)
    /\ ~RootContains(workspace_config, CurKey)
    /\ mismatches' = mismatches \o RootStep(workspace_config, CurKey, CurExpected)
    /\ idx' = idx + 1
    /\ workspace_config' = ConfigAfterStep(workspace_config, CurKey)
    /\ UNCHANGED <<workspace_context, pc, exc>>
    /\ UNCHANGED <<recVars, callVars>>

KeyCompare ==
    /\ InLoop
    /\ IsDict(workspace_config)
    /\ CurKey \in DictKeys(workspace_config)
    /\ mismatches' = mismatches \o RootStep(workspace_config, CurKey, CurExpected)
    /\ idx' = idx + 1
    /\ workspace_config' = ConfigAfterStep(workspace_config, CurKey)
    /\ UNCHANGED <<workspace_context, pc, exc>>
    /\ UNCHANGED <<recVars, callVars>>

Return ==
    /\ pc = "loop"
    /\ stack = <<>>
    /\ IsDict(workspace_context)
    /\ idx > Len(workspace_context.v)
    /\ pc' = "returned"
    /\ UNCHANGED <<workspace_config, workspace_context, mismatches, idx, exc>>
    /\ UNCHANGED <<recVars, callVars>>

Next == ItemsAttributeError \/ RootTypeError \/ KeyNotFound \/ KeyCompare \/ Return

\* ------------------------------------------------------------------------
\* The inputs of a call
\* ------------------------------------------------------------------------
\* longest list among the expected trees
MaxLen == 2

Leaves ==
    {PyNone, PyInt(0), PyInt(1), PyBool(TRUE), PyBool(FALSE),
     PyStr("true"), PyStr("True"), PyStr("FALSE"), PyStr("banana"), PyStr(""), PyStr("1")}

ListItems ==
    {PyInt(1), PyBool(TRUE), PyStr("x"), PyDict(<<Entry("b", PyInt(1))>>),
     PyList(<<PyStr("x"), PyStr("y")>>),
     PyDict(<<Entry("b", PyInt(1)), Entry("c", PyList(<<PyInt(1), PyStr("x")>>))>>)}

Lists == {PyList(s) : s \in UNION {[1..m -> ListItems] : m \in 0..MaxLen}}

\* dicts three levels down, and what an expected tree holds two levels down
DeepDicts ==
    {PyDict(<<Entry("a", PyInt(1))>>),
     PyDict(<<Entry("a", PyStr("true")), Entry("b", PyList(<<PyStr("x")>>))>>)}

MidVals == {PyInt(1), PyStr("true"), PyList(<<PyStr("x"), PyInt(1)>>)} \cup DeepDicts

MidDicts ==
    {PyDict(<<>>)}
    \cup {PyDict(<<Entry("b", v)>>) : v \in MidVals}
    \cup {PyDict(<<Entry("b", v), Entry("a", PyBool(TRUE))>>) : v \in MidVals}

TopVals == Leaves \cup Lists \cup MidDicts

\* the expected trees: dicts of one or two keys, in either insertion order
ExpectedRoots ==
    {PyDict(<<>>)}
    \cup {PyDict(<<Entry("a", v)>>) : v \in TopVals}
    \cup {PyDict(<<Entry("a", v), Entry("b", PyInt(0))>>) : v \in TopVals}
    \cup {PyDict(<<Entry("b", PyStr("False")), Entry("a", v)>>) : v \in TopVals}

\* values that are no dict, passed as workspace_context
OtherContexts == {PyNone, PyList(<<PyStr("a")>>), PyStr("a")}

RemoveAt(s, i) == SubSeq(s, 1, i - 1) \o SubSeq(s, i + 1, Len(s))
Reverse(s) == [i \in 1..Len(s) |-> s[Len(s) + 1 - i]]

\* A node replaced by a value of another shape or another scalar
Swaps(t) ==
    (Leaves \cup {PyDict(<<>>), PyList(<<>>), PyList(<<PyStr("a")>>),
                  PyList(<<PyStr("x"), PyStr("y")>>),
                  PyDict(<<Entry("b", PyInt(1)), Entry("c", PyStr("x"))>>)}) \ {t}

\* The trees one change away from t: a key or item dropped, added or
\* reordered, or any node replaced, at any depth.
RECURSIVE Variants(_)
Variants(t) ==
    Swaps(t) \cup
    (IF IsDict(t)
     THEN {PyDict(RemoveAt(t.v, i)) : i \in 1..Len(t.v)}
          \cup {PyDict(Append(t.v, Entry("z", PyInt(7))))}
          \cup {PyDict(Reverse(t.v))}
          \cup UNION {{PyDict([t.v EXCEPT ![i] = Entry(t.v[i].key, u)]) :
                          u \in Variants(t.v[i].val)} : i \in 1..Len(t.v)}
     ELSE IF IsList(t)
     THEN {PyList(RemoveAt(t.v, i)) : i \in 1..Len(t.v)}
          \cup {PyList(Append(t.v, PyStr("y")))}
          \cup {PyList(Reverse(t.v))}
          \cup (IF Len(t.v) >= 2
                THEN {PyList([Reverse(t.v) EXCEPT ![Len(t.v)] = PyStr("y")])}
                ELSE {})
          \cup UNION {{PyList([t.v EXCEPT ![i] = u]) :
                          u \in Variants(t.v[i])} : i \in 1..Len(t.v)}
     ELSE {})

\* t with one more key in every dict of it, inside lists too
RECURSIVE WithExtraKeys(_)
WithExtraKeys(t) ==
    IF IsDict(t)
    THEN PyDict(Append([i \in 1..Len(t.v) |-> Entry(t.v[i].key, WithExtraKeys(t.v[i].val))],
                       Entry("z", PyInt(7))))
    ELSE IF IsList(t)
    THEN PyList([i \in 1..Len(t.v) |-> WithExtraKeys(t.v[i])])
    ELSE t

\* t with one more key in every dict reached through dict keys only
RECURSIVE WithExtraKeysOutsideLists(_)
WithExtraKeysOutsideLists(t) ==
    IF IsDict(t)
    THEN PyDict(Append([i \in 1..Len(t.v) |->
                           Entry(t.v[i].key, WithExtraKeysOutsideLists(t.v[i].val))],
                       Entry("z", PyInt(7))))
    ELSE t

\* t with every scalar reached through dict keys replaced by leaf
RECURSIVE WithLeaves(_, _)
WithLeaves(t, leaf) ==
    IF IsDict(t)
    THEN PyDict([i \in 1..Len(t.v) |-> Entry(t.v[i].key, WithLeaves(t.v[i].val, leaf))])
    ELSE IF IsList(t) THEN t ELSE leaf

ConfigsFor(context) ==
    IF IsDict(context)
    THEN {context, WithExtraKeys(context), WithExtraKeysOutsideLists(context),
          WithLeaves(context, PyBool(TRUE)), WithLeaves(context, PyBool(FALSE)),
          WithLeaves(context, PyNone)}
         \cup Variants(context)
         \cup Variants(WithLeaves(context, PyBool(TRUE)))
    ELSE {PyDict(<<>>), context}

Init ==
    /\ workspace_context \in ExpectedRoots \cup OtherContexts
    /\ workspace_config \in ConfigsFor(workspace_context)
    /\ mismatches = <<>>
    /\ idx = 1
    /\ pc = "loop"
    /\ exc = "none"
    /\ stack = <<>>
    /\ visited = <<>>
    /\ NoCall

Spec == Init /\ [][Next]_vars

\* ------------------------------------------------------------------------
\* compare_values call by call: the frames of the recursion
\* ------------------------------------------------------------------------
\* A frame is one call compare_values(path, expected, actual).  i = 0: the
\* call has been made and has not yet tested its arguments; i >= 1: it is
\* in the loop over expected.items(), about to visit entry i.  The callers'
\* local_mismatches are folded into mismatches as they are produced: extend
\* appends them in that same order.
Frame(path, expected, actual) ==
    [path |-> path, expected |-> expected, actual |-> actual, i |-> 0]
Top == stack[Len(stack)]
Popped == SubSeq(stack, 1, Len(stack) - 1)
Advanced == [stack EXCEPT ![Len(stack)].i = @ + 1]
SubKey == Top.expected.v[Top.i].key
SubExpected == Top.expected.v[Top.i].val
InSubLoop ==
    /\ stack # <<>>
    /\ Top.i >= 1
    /\ Top.i <= Len(Top.expected.v)

ChildFrameSameNode(frame, sub_key) ==
    Frame(NewPath(frame.path, sub_key), frame.expected, frame.actual)

\* compare_values(new_path, sub_expected, sub_actual)
ChildFrame(frame, sub_key) ==
    Frame(NewPath(frame.path, sub_key),
          DictGet(frame.expected, sub_key),
          DictGet(frame.actual, sub_key))

\* actual_value = workspace_config[key]; compare_values(key, ...)
CallCompare ==
    /\ InLoop
    /\ IsDict(workspace_config)
    /\ CurKey \in DictKeys(workspace_config)
    /\ stack' = <<Frame(CurKey, CurExpected, DictGet(workspace_config, CurKey))>>
    /\ idx' = idx + 1
    /\ workspace_config' = ConfigAfterStep(workspace_config, CurKey)
    /\ UNCHANGED <<workspace_context, mismatches, pc, exc, visited, callVars>>

\* expected and actual are both dicts: enter the loop over expected.items()
EnterDict ==
    /\ stack # <<>>
    /\ Top.i = 0
    /\ IsDict(Top.expected) /\ IsDict(Top.actual)
    /\ visited' = Append(visited, Top.path)
    /\ stack' = Advanced
    /\ UNCHANGED <<workspace_config, workspace_context, mismatches, idx, pc, exc,
                   callVars>>

\* any other pair: the call makes no further call and returns
EnterOther ==
    /\ stack # <<>>
    /\ Top.i = 0
    /\ ~(IsDict(Top.expected) /\ IsDict(Top.actual))
    /\ visited' = Append(visited, Top.path)
    /\ mismatches' = mismatches \o compare_values(Top.path, Top.expected, Top.actual)
    /\ stack' = Popped
    /\ UNCHANGED <<workspace_config, workspace_context, idx, pc, exc, callVars>>

\* sub_key not in actual
SubKeyNotFound ==
    /\ InSubLoop
    /\ SubKey \notin DictKeys(Top.actual)
    /\ mismatches' = Append(mismatches,
                            Mismatch(NewPath(Top.path, SubKey), SubExpected, PyNone,
                                     "key_not_found"))
    /\ stack' = Advanced
    /\ UNCHANGED <<workspace_config, workspace_context, idx, pc, exc, visited,
                   callVars>>

\* sub_key in actual: the recursive call
SubKeyCompare ==
    /\ InSubLoop
    /\ SubKey \in DictKeys(Top.actual)
    /\ stack' = Append(Advanced, ChildFrame(Top, SubKey))
    /\ UNCHANGED <<workspace_config, workspace_context, mismatches, idx, pc, exc,
                   visited, callVars>>

\* the loop over expected.items() is over: return local_mismatches
ReturnFrame ==
    /\ stack # <<>>
    /\ Top.i >= 1
    /\ Top.i > Len(Top.expected.v)
    /\ stack' = Popped
    /\ UNCHANGED <<workspace_config, workspace_context, mismatches, idx, pc, exc,
                   visited, callVars>>

RecNext ==
    \/ ItemsAttributeError \/ RootTypeError \/ KeyNotFound \/ CallCompare
    \/ EnterDict \/ EnterOther \/ SubKeyNotFound \/ SubKeyCompare
    \/ ReturnFrame \/ Return

\* a call runs on one thread and nothing blocks it: a step that can be
\* taken is taken
RecSpec == Init /\ [][RecNext]_vars /\ WF_vars(RecNext)

\* ------------------------------------------------------------------------
\* Properties
\* ------------------------------------------------------------------------
Returned == pc = "returned"

\* The string-to-boolean coercion as documented: only the literals
\* 'true' and 'false', in any letter case, stand for a boolean.
TrueLiterals == {"true", "True", "TRUE"}
FalseLiterals == {"false", "False", "FALSE"}
IsBoolLiteral(x) == IsStr(x) /\ x.v \in TrueLiterals \cup FalseLiterals
LiteralValue(x) == PyBool(x.v \in TrueLiterals)
Coerced(expected, actual) ==
    IF IsBool(actual) /\ IsBoolLiteral(expected)
    THEN LiteralValue(expected)
    ELSE expected

\* actual structurally contains expected: every expected key is present in
\* the actual mapping and satisfied, every expected item equals some element
\* of the actual list, every expected scalar equals the actual value
RECURSIVE Contains(_, _)
Contains(expected, actual) ==
    IF IsDict(expected)
    THEN \A i \in 1..Len(expected.v) :
            /\ IsDict(actual)
            /\ expected.v[i].key \in DictKeys(actual)
            /\ Contains(expected.v[i].val, DictGet(actual, expected.v[i].key))
    ELSE IF IsList(expected)
    THEN \A i \in 1..Len(expected.v) :
            /\ IsList(actual)
            /\ \E j \in 1..Len(actual.v) : PyEq(expected.v[i], actual.v[j])
    ELSE PyEq(Coerced(expected, actual), actual)

\* C1: the returned list is empty if and only if the actual tree
\* structurally contains the expected tree at every path (keys present and
\* satisfied recursively, list items equal to some actual element, scalars
\* equal after the string-to-boolean coercion).
C1_EmptyIffContains ==
    Returned => (mismatches = <<>> <=> Contains(workspace_context, workspace_config))

\* nesting depth of dicts reached through dict keys
RECURSIVE DictDepth(_)
DictDepth(t) ==
    IF ~IsDict(t) THEN 0
    ELSE LET ds == {DictDepth(t.v[i].val) : i \in 1..Len(t.v)} \cup {0}
         IN  1 + CHOOSE d \in ds : \A e \in ds : e <= d

\* some value of kind k somewhere in t
RECURSIVE HasKind(_, _)
HasKind(t, k) ==
    \/ t.k = k
    \/ /\ IsDict(t)
       /\ \E i \in 1..Len(t.v) : HasKind(t.v[i].val, k)
    \/ /\ IsList(t)
       /\ \E i \in 1..Len(t.v) : HasKind(t.v[i], k)

\* C2: a tree compared against itself yields an empty mismatch list.
C2_Reflexive ==
    Returned /\ workspace_config = workspace_context => mismatches = <<>>

\* a three-level tree holding a list and a string was compared with itself
C2_Witness ==
    /\ Returned
    /\ workspace_config = workspace_context
    /\ DictDepth(workspace_context) >= 3
    /\ HasKind(workspace_context, "list")
    /\ HasKind(workspace_context, "str")
    /\ mismatches = <<>>

\* actual is expected with extra keys added to dicts, at any depth,
\* the dicts inside list items included
RECURSIVE IsExtension(_, _)
IsExtension(expected, actual) ==
    IF IsDict(expected)
    THEN /\ IsDict(actual)
         /\ DictKeys(expected) \subseteq DictKeys(actual)
         /\ \A i \in 1..Len(expected.v) :
                IsExtension(expected.v[i].val, DictGet(actual, expected.v[i].key))
    ELSE IF IsList(expected)
    THEN /\ IsList(actual)
         /\ Len(actual.v) = Len(expected.v)
         /\ \A i \in 1..Len(expected.v) : IsExtension(expected.v[i], actual.v[i])
    ELSE actual = expected

\* the same, with every list left as it is
RECURSIVE IsExtensionOutsideLists(_, _)
IsExtensionOutsideLists(expected, actual) ==
    IF IsDict(expected)
    THEN /\ IsDict(actual)
         /\ DictKeys(expected) \subseteq DictKeys(actual)
         /\ \A i \in 1..Len(expected.v) :
                IsExtensionOutsideLists(expected.v[i].val,
                                        DictGet(actual, expected.v[i].key))
    ELSE actual = expected

\* C3 as stated: extra keys added to the dicts of the expected tree at any
\* depth are never reported.
C3_ExtraKeysAnyDepth ==
    Returned /\ IsExtension(workspace_context, workspace_config) => mismatches = <<>>

\* C3 as amended: extra keys added to the dicts reached through dict keys
\* only, every list and the dicts inside it left as they are, are never
\* reported.
C3_ExtraKeysOutsideLists ==
    Returned /\ IsExtensionOutsideLists(workspace_context, workspace_config)
        => mismatches = <<>>

\* every dict of a three-level tree got an extra key, and nothing was reported
C3_Witness ==
    /\ Returned
    /\ DictDepth(workspace_context) >= 3
    /\ workspace_config = WithExtraKeysOutsideLists(workspace_context)
    /\ workspace_config # workspace_context
    /\ mismatches = <<>>

\* ---- paths ----
\* the keys from the root to a node, joined with dots
RECURSIVE DotJoin(_)
DotJoin(keys) ==
    IF Len(keys) = 1 THEN keys[1]
    ELSE DotJoin(SubSeq(keys, 1, Len(keys) - 1)) \o "." \o keys[Len(keys)]

\* the nodes of expected whose path resolves in actual through dict keys,
\* each with the actual value found there
RECURSIVE ResolvedPairs(_, _, _)
ResolvedPairs(keys, expected, actual) ==
    {[keys |-> keys, exp |-> expected, act |-> actual]}
    \cup (IF IsDict(expected) /\ IsDict(actual)
          THEN UNION {IF expected.v[i].key \in DictKeys(actual)
                      THEN ResolvedPairs(Append(keys, expected.v[i].key),
                                         expected.v[i].val,
                                         DictGet(actual, expected.v[i].key))
                      ELSE {} : i \in 1..Len(expected.v)}
          ELSE {})

\* the expected keys missing from the corresponding actual dict, each with
\* the expected subtree under it
MissingKeys(expected, actual) ==
    UNION {{[keys |-> Append(r.keys, r.exp.v[i].key), sub |-> r.exp.v[i].val] :
              i \in {j \in 1..Len(r.exp.v) : r.exp.v[j].key \notin DictKeys(r.act)}} :
           r \in {q \in ResolvedPairs(<<>>, expected, actual) :
                    IsDict(q.exp) /\ IsDict(q.act)}}

\* the key paths of the nodes strictly beneath a node
RECURSIVE PathsBeneath(_, _)
PathsBeneath(keys, t) ==
    IF IsDict(t)
    THEN UNION {{Append(keys, t.v[i].key)}
                \cup PathsBeneath(Append(keys, t.v[i].key), t.v[i].val) :
                i \in 1..Len(t.v)}
    ELSE IF IsList(t)
    THEN UNION {PathsBeneath(keys, t.v[i]) : i \in 1..Len(t.v)}
    ELSE {}

\* the mismatches reported at a path, in order
MismatchesAt(p) == SelectSeq(mismatches, LAMBDA m : m.path = p)

BothDicts == IsDict(workspace_context) /\ IsDict(workspace_config)

\* C4: an expected key missing from the corresponding actual dict gets
\* exactly one mismatch, at the dot-joined path from the root, with actual
\* None, and no mismatch at any path beneath it.
C4_MissingKeyReportedOnce ==
    Returned /\ BothDicts =>
        \A m \in MissingKeys(workspace_context, workspace_config) :
            /\ Len(MismatchesAt(DotJoin(m.keys))) = 1
            /\ MismatchesAt(DotJoin(m.keys))[1].actual = PyNone
            /\ \A q \in PathsBeneath(m.keys, m.sub) : MismatchesAt(DotJoin(q)) = <<>>

\* the key 'a.b' is missing and the expected subtree under it holds keys and a list
C4_Witness ==
    /\ Returned /\ BothDicts
    /\ \E m \in MissingKeys(workspace_context, workspace_config) :
          /\ m.keys = <<"a", "b">>
          /\ DictDepth(m.sub) >= 1
          /\ HasKind(m.sub, "list")
          /\ Len(mismatches) = 1
          /\ mismatches[1].path = "a.b"

\* C5: for an expected list compared with an actual list, the mismatches at
\* the list's path are one per expected item equal to no actual element, in
\* item order, with expected the item and actual None; nothing is reported
\* beneath the items.
C5_ListMembership ==
    Returned /\ BothDicts =>
        \A r \in ResolvedPairs(<<>>, workspace_context, workspace_config) :
            IsList(r.exp) /\ IsList(r.act) =>
                LET absent == SelectSeq(r.exp.v,
                                  LAMBDA item : \A j \in 1..Len(r.act.v) : ~PyEq(item, r.act.v[j]))
                    at == MismatchesAt(DotJoin(r.keys))
                IN  /\ [i \in 1..Len(at) |-> <<at[i].expected, at[i].actual>>]
                         = [i \in 1..Len(absent) |-> <<absent[i], PyNone>>]
                    /\ \A q \in PathsBeneath(r.keys, r.exp) : MismatchesAt(DotJoin(q)) = <<>>

\* of two expected items the second is found at another position (also a
\* dict item found whole) and the first is reported
C5_Witness ==
    /\ Returned /\ BothDicts
    /\ \E r \in ResolvedPairs(<<>>, workspace_context, workspace_config) :
          /\ IsList(r.exp) /\ IsList(r.act)
          /\ Len(r.exp.v) = 2 /\ Len(r.act.v) = 2
          /\ IsDict(r.exp.v[2])
          /\ PyEq(r.exp.v[2], r.act.v[1])
          /\ ~PyIn(r.exp.v[1], r.act)
          /\ Len(MismatchesAt(DotJoin(r.keys))) = 1

IsScalar(x) == ~IsDict(x) /\ ~IsList(x)

\* C6: an expected 'true'/'false' literal in any letter case against an
\* actual boolean is coerced: no mismatch when the booleans agree, exactly
\* one mismatch with expected the coerced boolean and actual the actual
\* boolean when they differ.
C6_BoolLiteralCoerced ==
    Returned /\ BothDicts =>
        \A r \in ResolvedPairs(<<>>, workspace_context, workspace_config) :
            IsBoolLiteral(r.exp) /\ IsBool(r.act) =>
                LET at == MismatchesAt(DotJoin(r.keys))
                IN  IF LiteralValue(r.exp) = r.act
                    THEN at = <<>>
                    ELSE /\ Len(at) = 1
                         /\ at[1].expected = LiteralValue(r.exp)
                         /\ at[1].actual = r.act

\* 'True' met True without a mismatch while 'False' met True with one
C6_Witness ==
    /\ Returned /\ BothDicts
    /\ \E r1, r2 \in ResolvedPairs(<<>>, workspace_context, workspace_config) :
          /\ r1.exp = PyStr("True") /\ r1.act = PyBool(TRUE)
          /\ MismatchesAt(DotJoin(r1.keys)) = <<>>
          /\ r2.exp = PyStr("False") /\ r2.act = PyBool(TRUE)
          /\ Len(MismatchesAt(DotJoin(r2.keys))) = 1

\* C7: apart from string-expected against boolean-actual, scalars of
\* different types always produce a mismatch (1 against '1', 1 against True,
\* 0 against False, True against 'true').
C7_DifferentTypesMismatch ==
    Returned /\ BothDicts =>
        \A r \in ResolvedPairs(<<>>, workspace_context, workspace_config) :
            /\ IsScalar(r.exp) /\ IsScalar(r.act)
            /\ r.exp.k # r.act.k
            /\ ~(IsStr(r.exp) /\ IsBool(r.act))
            => MismatchesAt(DotJoin(r.keys)) # <<>>

\* C8: an expected string that is no boolean literal produces a mismatch
\* against any actual boolean.
C8_NonLiteralStringMismatch ==
    Returned /\ BothDicts =>
        \A r \in ResolvedPairs(<<>>, workspace_context, workspace_config) :
            IsStr(r.exp) /\ ~IsBoolLiteral(r.exp) /\ IsBool(r.act)
            => MismatchesAt(DotJoin(r.keys)) # <<>>

\* ---- order ----
\* the nodes of the expected tree in depth-first pre-order, each with its
\* dot-joined path; the items of a list stand at the path of the list
RECURSIVE Preorder(_, _)
RECURSIVE PreorderEntries(_, _)
Preorder(keys, t) ==
    (IF keys = <<>> THEN <<>> ELSE <<[path |-> DotJoin(keys), node |-> t]>>)
    \o (IF IsDict(t) THEN PreorderEntries(keys, t.v)
        ELSE IF IsList(t)
        THEN [i \in 1..Len(t.v) |-> [path |-> DotJoin(keys), node |-> t.v[i]]]
        ELSE <<>>)
PreorderEntries(keys, entries) ==
    IF entries = <<>>
    THEN <<>>
    ELSE Preorder(Append(keys, Head(entries).key), Head(entries).val)
         \o PreorderEntries(keys, Tail(entries))

\* a mismatch reports a node: same path, and the node as expected value
\* (or the boolean a string node was coerced to)
ReportsNode(m, slot) ==
    /\ m.path = slot.path
    /\ \/ m.expected = slot.node
       \/ IsStr(slot.node) /\ IsBool(m.expected)

\* ms reports nodes of slots in the order of slots
RECURSIVE InOrderOf(_, _)
InOrderOf(ms, slots) ==
    IF ms = <<>> THEN TRUE
    ELSE IF slots = <<>> THEN FALSE
    ELSE IF ReportsNode(Head(ms), Head(slots))
         THEN InOrderOf(Tail(ms), Tail(slots))
         ELSE InOrderOf(ms, Tail(slots))

\* the orderings of a sequence
PermsOfSeq(s) ==
    {[i \in 1..Len(s) |-> s[f[i]]] :
        f \in {g \in [1..Len(s) -> 1..Len(s)] :
                  \A i, j \in 1..Len(s) : g[i] = g[j] => i = j}}

\* the trees that are t with the entries of its dicts and the items of its
\* lists reordered, at every depth
RECURSIVE Reorderings(_)
RECURSIVE ReorderedEntries(_)
RECURSIVE ReorderedItems(_)
Reorderings(t) ==
    IF IsDict(t)
    THEN UNION {{PyDict(p) : p \in PermsOfSeq(es)} : es \in ReorderedEntries(t.v)}
    ELSE IF IsList(t)
    THEN UNION {{PyList(p) : p \in PermsOfSeq(is)} : is \in ReorderedItems(t.v)}
    ELSE {t}
ReorderedEntries(entries) ==
    IF entries = <<>>
    THEN {<<>>}
    ELSE {<<Entry(Head(entries).key, u)>> \o rest :
             u \in Reorderings(Head(entries).val), rest \in ReorderedEntries(Tail(entries))}
ReorderedItems(items) ==
    IF items = <<>>
    THEN {<<>>}
    ELSE {<<u>> \o rest :
             u \in Reorderings(Head(items)), rest \in ReorderedItems(Tail(items))}

\* the trees that are t with the entries of its dicts reordered at every
\* depth, inside lists too, every list keeping its order
RECURSIVE KeysReordered(_)
RECURSIVE KeysReorderedEntries(_)
RECURSIVE KeysReorderedItems(_)
KeysReordered(t) ==
    IF IsDict(t)
    THEN UNION {{PyDict(p) : p \in PermsOfSeq(es)} : es \in KeysReorderedEntries(t.v)}
    ELSE IF IsList(t)
    THEN {PyList(is) : is \in KeysReorderedItems(t.v)}
    ELSE {t}
KeysReorderedEntries(entries) ==
    IF entries = <<>>
    THEN {<<>>}
    ELSE {<<Entry(Head(entries).key, u)>> \o rest :
             u \in KeysReordered(Head(entries).val),
             rest \in KeysReorderedEntries(Tail(entries))}
KeysReorderedItems(items) ==
    IF items = <<>>
    THEN {<<>>}
    ELSE {<<u>> \o rest :
             u \in KeysReordered(Head(items)), rest \in KeysReorderedItems(Tail(items))}

\* the same, and the items of every list that stands against an expected
\* list (reached through dict keys of both trees) reordered as well; the
\* lists inside those items keep their order
RECURSIVE ComparedReorderings(_, _)
RECURSIVE ComparedReorderedEntries(_, _)
ComparedReorderings(expected, actual) ==
    IF IsDict(actual)
    THEN UNION {{PyDict(p) : p \in PermsOfSeq(es)} :
                   es \in ComparedReorderedEntries(expected, actual.v)}
    ELSE IF IsList(actual) /\ IsList(expected)
    THEN UNION {{PyList(p) : p \in PermsOfSeq(is)} : is \in KeysReorderedItems(actual.v)}
    ELSE KeysReordered(actual)
ComparedReorderedEntries(expected, entries) ==
    IF entries = <<>>
    THEN {<<>>}
    ELSE LET key == Head(entries).key
             val == Head(entries).val
             us == IF IsDict(expected) /\ key \in DictKeys(expected)
                   THEN ComparedReorderings(DictGet(expected, key), val)
                   ELSE KeysReordered(val)
         IN  {<<Entry(key, u)>> \o rest :
                 u \in us, rest \in ComparedReorderedEntries(expected, Tail(entries))}

\* two reports with the same records in the same order: path and message
\* the same, expected and actual values equal as Python's == has it (a
\* dict equals its reorderings)
SameReport(ms1, ms2) ==
    /\ Len(ms1) = Len(ms2)
    /\ \A i \in 1..Len(ms1) :
          /\ ms1[i].path = ms2[i].path
          /\ ms1[i].message = ms2[i].message
          /\ PyEq(ms1[i].expected, ms2[i].expected)
          /\ PyEq(ms1[i].actual, ms2[i].actual)

\* C9 as stated: the mismatches come in depth-first pre-order of the
\* expected tree, and reordering the keys or the list items of the actual
\* tree, at any depth, changes neither the order nor the content of the
\* returned list.
C9_OrderFollowsExpected ==
    Returned /\ BothDicts =>
        /\ InOrderOf(mismatches, Preorder(<<>>, workspace_context))
        /\ \A a2 \in Reorderings(workspace_config) :
              SameReport(RootLoop(workspace_context.v, a2), mismatches)

\* C9 as amended: the mismatches come in depth-first pre-order of the
\* expected tree, and reordering the keys of the actual tree's dicts at any
\* depth, or the items of an actual list compared with an expected list,
\* changes neither the order of the returned list nor the path, the
\* expected value and the actual value of any record.
C9_OrderUnderComparedReorderings ==
    Returned /\ BothDicts =>
        /\ InOrderOf(mismatches, Preorder(<<>>, workspace_context))
        /\ \A a2 \in ComparedReorderings(workspace_context, workspace_config) :
              SameReport(RootLoop(workspace_context.v, a2), mismatches)

\* two mismatches in the expected insertion order b, a, the second
\* carrying a dict of two keys found in the actual tree, which has other
\* orderings
C9_Witness ==
    /\ Returned /\ BothDicts
    /\ Len(mismatches) = 2
    /\ mismatches[1].path = "b"
    /\ mismatches[2].path = "a"
    /\ IsDict(mismatches[2].actual)
    /\ Len(mismatches[2].actual.v) = 2
    /\ Cardinality(ComparedReorderings(workspace_context, workspace_config)) >= 4

\* three mismatches in the expected insertion order b, a.b, a.a
C9_WitnessThree ==
    /\ Returned /\ BothDicts
    /\ Len(mismatches) = 3
    /\ mismatches[1].path = "b"
    /\ mismatches[2].path = "a.b"
    /\ mismatches[3].path = "a.a"
    /\ Cardinality(ComparedReorderings(workspace_context, workspace_config)) >= 4

\* a reordered list inside a list item: the item was found, and is not
\* found in the reordering
C9_ReorderedItemNotFound ==
    /\ Returned /\ BothDicts
    /\ mismatches = <<>>
    /\ \E a2 \in Reorderings(workspace_config) :
          Len(RootLoop(workspace_context.v, a2)) = 1

\* a record that carries an actual list carries it reordered
C9_ReorderedActualList ==
    /\ Returned /\ BothDicts
    /\ Len(mismatches) = 1
    /\ IsList(mismatches[1].actual)
    /\ \E a2 \in Reorderings(workspace_config) :
          LET ms2 == RootLoop(workspace_context.v, a2)
          IN  Len(ms2) = 1 /\ ~PyEq(ms2[1].actual, mismatches[1].actual)

\* an actual list of two items stands against an expected list, one
\* expected item is found in it and another is not
C9_WitnessList ==
    /\ Returned /\ BothDicts
    /\ \E r \in ResolvedPairs(<<>>, workspace_context, workspace_config) :
          /\ IsList(r.exp) /\ IsList(r.act)
          /\ Len(r.act.v) = 2 /\ r.act.v[1] # r.act.v[2]
          /\ \E i \in 1..Len(r.exp.v) : PyEq(r.exp.v[i], r.act.v[2])
          /\ Len(MismatchesAt(DotJoin(r.keys))) = 1

\* C10: the comparison never raises, also when the actual root is no dict.
C10_NeverRaises == IsDict(workspace_context) => pc # "raised"

\* ---- shape mismatches ----
\* the resolved pairs where the expected node is a dict or a list and the
\* actual value has another shape
ShapePairs ==
    {r \in ResolvedPairs(<<>>, workspace_context, workspace_config) :
        \/ IsDict(r.exp) /\ ~IsDict(r.act)
        \/ IsList(r.exp) /\ ~IsList(r.act)}

\* C11 as stated: an expected dict against an actual value that is no dict
\* gets one mismatch per expected key k, at path.k, with actual None; an
\* expected list against an actual value that is no list gets one mismatch
\* per expected item, at the list's path, with expected the item and actual
\* None.
C11_ShapeReportedPerKey ==
    Returned /\ BothDicts =>
        \A r \in ShapePairs :
            IF IsDict(r.exp)
            THEN \A i \in 1..Len(r.exp.v) :
                    LET at == MismatchesAt(DotJoin(Append(r.keys, r.exp.v[i].key)))
                    IN  Len(at) = 1 /\ at[1].actual = PyNone
            ELSE LET at == MismatchesAt(DotJoin(r.keys))
                 IN  [i \in 1..Len(at) |-> <<at[i].expected, at[i].actual>>]
                       = [i \in 1..Len(r.exp.v) |-> <<r.exp.v[i], PyNone>>]

\* C11 as amended: an expected dict (or list) against an actual value that
\* is no dict (no list) gets exactly one mismatch, at the path of the dict
\* (list) itself, with expected the whole dict (list) and actual the value
\* found; no key or item of it is reported.
C11_ShapeReportedOnce ==
    Returned /\ BothDicts =>
        \A r \in ShapePairs :
            LET at == MismatchesAt(DotJoin(r.keys))
            IN  /\ Len(at) = 1
                /\ at[1].expected = r.exp
                /\ at[1].actual = r.act
                /\ \A q \in PathsBeneath(r.keys, r.exp) : MismatchesAt(DotJoin(q)) = <<>>

\* a dict of two keys met a scalar, and a list of two items met a dict
C11_Witness ==
    /\ Returned /\ BothDicts
    /\ \E r \in ShapePairs :
          /\ Len(r.exp.v) = 2
          /\ \/ IsDict(r.exp) /\ IsScalar(r.act)
             \/ IsList(r.exp) /\ IsDict(r.act)
          /\ Len(mismatches) = 1

\* ---- paths of the mismatches ----
\* the key paths of the expected tree, through dict keys
RECURSIVE DictPaths(_, _)
DictPaths(keys, t) ==
    IF IsDict(t)
    THEN UNION {{Append(keys, t.v[i].key)}
                \cup DictPaths(Append(keys, t.v[i].key), t.v[i].val) :
                i \in 1..Len(t.v)}
    ELSE {}

\* the value at a key path of a tree: [ok, val]
RECURSIVE Resolve(_, _)
Resolve(t, keys) ==
    IF keys = <<>> THEN [ok |-> TRUE, val |-> t]
    ELSE IF IsDict(t) /\ Head(keys) \in DictKeys(t)
         THEN Resolve(DictGet(t, Head(keys)), Tail(keys))
         ELSE [ok |-> FALSE, val |-> PyNone]

\* the key path a dot-joined path stands for
KeysOf(path) ==
    CHOOSE q \in DictPaths(<<>>, workspace_context) : DotJoin(q) = path

\* C14 as stated: every mismatch has a path of the expected tree, its actual
\* field is None exactly when that path does not resolve in the actual tree,
\* and a mismatch whose path resolves carries the value found there.
C14_ActualNoneIffMissing ==
    Returned /\ BothDicts =>
        \A i \in 1..Len(mismatches) :
            /\ \E q \in DictPaths(<<>>, workspace_context) : DotJoin(q) = mismatches[i].path
            /\ LET found == Resolve(workspace_config, KeysOf(mismatches[i].path))
               IN  /\ mismatches[i].actual = PyNone <=> ~found.ok
                   /\ found.ok => mismatches[i].actual = found.val

\* C14 as amended: every mismatch has a path of the expected tree; when the
\* path does not resolve in the actual tree its actual field is None; when
\* it resolves, the actual field is the value found there, except for an
\* expected list item missing from an actual list, which is reported at the
\* path of the list with actual None.
C14_ActualIsValueFound ==
    Returned /\ BothDicts =>
        \A i \in 1..Len(mismatches) :
            /\ \E q \in DictPaths(<<>>, workspace_context) : DotJoin(q) = mismatches[i].path
            /\ LET q == KeysOf(mismatches[i].path)
                   found == Resolve(workspace_config, q)
                   node == Resolve(workspace_context, q).val
               IN  IF ~found.ok
                   THEN mismatches[i].actual = PyNone
                   ELSE \/ mismatches[i].actual = found.val
                        \/ /\ IsList(node) /\ IsList(found.val)
                           /\ mismatches[i].actual = PyNone
                           /\ \E j \in 1..Len(node.v) : mismatches[i].expected = node.v[j]

\* one mismatch for a missing key and one that carries the value found (a
\* missing list item is reached in C5_Witness)
C14_Witness ==
    /\ Returned /\ BothDicts
    /\ \E i, j \in 1..Len(mismatches) :
          /\ ~Resolve(workspace_config, KeysOf(mismatches[i].path)).ok
          /\ Resolve(workspace_config, KeysOf(mismatches[j].path)).ok
          /\ mismatches[j].actual # PyNone

\* ------------------------------------------------------------------------
\* C12: a comparison leaves both input trees unchanged: at every step of a
\* call, and so when it returns, workspace_context and workspace_config
\* are equal to what they were before the call.
\* ------------------------------------------------------------------------
C12_InputsUnchanged ==
    [][/\ workspace_config' = workspace_config
       /\ workspace_context' = workspace_context]_vars

\* a call that went through several keys, found some and missed others,
\* and returned
C12_Witness ==
    /\ Returned
    /\ IsDict(workspace_config)
    /\ Len(workspace_context.v) >= 2
    /\ \E i \in 1..Len(workspace_context.v) :
           workspace_context.v[i].key \in DictKeys(workspace_config)
    /\ \E i \in 1..Len(workspace_context.v) :
           workspace_context.v[i].key \notin DictKeys(workspace_config)
    /\ mismatches # <<>>

\* ------------------------------------------------------------------------
\* C13: the comparison terminates on every pair of finite trees: every
\* call of compare_values is made on a node of the expected tree, no node
\* is visited twice, and the function returns or raises.
\* ------------------------------------------------------------------------
ExpectedPaths == {DotJoin(q) : q \in DictPaths(<<>>, workspace_context)}

VisitsEachNodeOnce ==
    /\ \A i \in 1..Len(visited) : visited[i] \in ExpectedPaths
    /\ \A i, j \in 1..Len(visited) : visited[i] = visited[j] => i = j

C13_Terminates ==
    /\ [](VisitsEachNodeOnce /\ Len(stack) <= DictDepth(workspace_context))
    /\ <>(pc \in {"returned", "raised"} /\ stack = <<>>)

\* a call that descended two dicts deep, visited several nodes and returned
C13_Witness ==
    /\ Returned
    /\ stack = <<>>
    /\ Len(visited) >= 3
    /\ \E i \in 1..Len(visited) :
           \E q \in DictPaths(<<>>, workspace_context) :
               Len(q) >= 3 /\ DotJoin(q) = visited[i]

\* the calls one by one produce the list the nested calls produce
RecAgrees ==
    Returned => mismatches = RootLoop(workspace_context.v, workspace_config)

\* ========================================================================
\* The other functions: one call each
\* ========================================================================
\* the outcome of a call: not yet over, a returned value, a raised exception
Pending == [kind |-> "pending", val |-> PyNone]
Returns(value) == [kind |-> "return", val |-> value]
Raises(exception) == [kind |-> "raise", val |-> PyStr(exception)]

\* validate_workspace_configuration is not running
WorkspaceIdle ==
    /\ workspace_config = PyNone
    /\ workspace_context = PyNone
    /\ mismatches = <<>>
    /\ idx = 0
    /\ pc = "off"
    /\ exc = "none"
    /\ stack = <<>>
    /\ visited = <<>>

\* a_dict.get(key, default)
PyGet(d, key, default) ==
    IF key \in DictKeys(d) THEN DictGet(d, key) ELSE default

\* bool(x) for the values tested with "if x:"
Truthy(x) ==
    CASE x.k = "none" -> FALSE
      [] x.k = "dict" -> x.v # <<>>
      [] x.k = "list" -> x.v # <<>>
      [] x.k = "str" -> x.v # ""
      [] x.k = "bool" -> x.v
      [] x.k = "int" -> x.v # 0

\* json_response.get("data", {}).get("content", [])
Content(json_response) ==
    PyGet(PyGet(json_response, "data", PyDict(<<>>)), "content", PyList(<<>>))

\* ------------------------------------------------------------------------
\* harness.platform.get_pipeline_by_id
\* ------------------------------------------------------------------------
\* the loop over content: the first pipeline whose identifier, lower-cased,
\* equals pipeline_id lower-cased; None when the loop ends without a break
RECURSIVE TargetPipeline(_, _)
TargetPipeline(content, pipeline_id) ==
    IF content = <<>> THEN PyNone
    ELSE IF StrLower(PyGet(Head(content), "identifier", PyStr("")).v)
            = StrLower(pipeline_id.v)
         THEN Head(content)
         ELSE TargetPipeline(Tail(content), pipeline_id)

get_pipeline_by_id(json_response, pipeline_id) ==
    IF PyEq(PyGet(json_response, "status", PyNone), PyStr("SUCCESS"))
    THEN LET content == Content(json_response).v
         IN  IF Len(content) = 1
             THEN Returns(content[1])
             ELSE IF Len(content) > 1
                  THEN LET target_pipeline == TargetPipeline(content, pipeline_id)
                       IN  IF Truthy(target_pipeline)
                           THEN Returns(target_pipeline)
                           ELSE Returns(PyNone)
                  ELSE Returns(PyNone)
    ELSE Returns(PyNone)

CallGetPipelineById ==
    /\ fn = "get_pipeline_by_id"
    /\ ret = Pending
    /\ ret' = get_pipeline_by_id(args.json_response, args.pipeline_id)
    /\ UNCHANGED <<workspace_config, workspace_context, mismatches, idx, pc, exc,
                   recVars, fn, args, locals>>

\* ---- the responses ----
\* most entries in the content of a response
MaxContent == 3

SeqsUpTo(S, n) == UNION {[1..m -> S] : m \in 0..n}

Response(status, content) ==
    PyDict(<<Entry("status", PyStr(status)),
             Entry("data", PyDict(<<Entry("content", PyList(content))>>))>>)

\* a response with a status and no data
Bare(status) == PyDict(<<Entry("status", PyStr(status))>>)

Pipeline(identifier) ==
    PyDict(<<Entry("identifier", PyStr(identifier)), Entry("name", PyStr("n"))>>)

Pipelines ==
    {Pipeline(i) : i \in {"build", "Build", "deploy"}}
    \cup {PyDict(<<Entry("name", PyStr("n"))>>)}

PipelineResponses ==
    {Response(st, c) : st \in {"SUCCESS", "ERROR"}, c \in SeqsUpTo(Pipelines, MaxContent)}
    \cup {Bare("SUCCESS"), Bare("ERROR"), PyDict(<<>>)}

PipelineInit ==
    /\ WorkspaceIdle
    /\ fn = "get_pipeline_by_id"
    /\ args \in [json_response : PipelineResponses,
                  pipeline_id : {PyStr(i) : i \in {"build", "BUILD", "deploy", "test"}}]
    /\ locals = <<>>
    /\ ret = Pending

PipelineNext == CallGetPipelineById

PipelineSpec == PipelineInit /\ [][PipelineNext]_vars

\* ---- identifiers compared without regard to letter case ----
CaseClasses ==
    {{"build", "Build", "BUILD"}, {"deploy", "Deploy", "DEPLOY"}, {"test", "Test"},
     {"run", "Run", "RUN"}, {"plugin", "Plugin"}}
SameIgnoringCase(a, b) == a = b \/ \E c \in CaseClasses : a \in c /\ b \in c

IsSuccess(json_response) ==
    /\ "status" \in DictKeys(json_response)
    /\ DictGet(json_response, "status") = PyStr("SUCCESS")

\* the entries of the content of a response
Entries(json_response) ==
    IF /\ "data" \in DictKeys(json_response)
       /\ "content" \in DictKeys(DictGet(json_response, "data"))
    THEN DictGet(DictGet(json_response, "data"), "content").v
    ELSE <<>>

PipelineMatches(pipeline, pipeline_id) ==
    /\ "identifier" \in DictKeys(pipeline)
    /\ SameIgnoringCase(DictGet(pipeline, "identifier").v, pipeline_id.v)

\* ------------------------------------------------------------------------
\* C15: for a response with status SUCCESS, get_pipeline_by_id returns a
\* pipeline whose identifier equals pipeline_id case-insensitively when the
\* content holds one, and None otherwise, for any number of pipelines.
\* ------------------------------------------------------------------------
C15_ReturnsMatchingPipeline ==
    fn = "get_pipeline_by_id" /\ ret # Pending /\ IsSuccess(args.json_response) =>
        LET content == Entries(args.json_response)
            hits == {i \in 1..Len(content) : PipelineMatches(content[i], args.pipeline_id)}
        IN  IF hits # {}
            THEN \E i \in hits : ret = Returns(content[i])
            ELSE ret = Returns(PyNone)

\* the same for a content of two pipelines or more
C15_SeveralPipelines ==
    /\ fn = "get_pipeline_by_id"
    /\ ret # Pending
    /\ IsSuccess(args.json_response)
    /\ Len(Entries(args.json_response)) >= 2
    => LET content == Entries(args.json_response)
           hits == {i \in 1..Len(content) : PipelineMatches(content[i], args.pipeline_id)}
       IN  IF hits # {}
           THEN ret = Returns(content[CHOOSE i \in hits : \A j \in hits : i <= j])
           ELSE ret = Returns(PyNone)

\* a single pipeline with another identifier is returned all the same
C15_SingleOtherReturned ==
    /\ fn = "get_pipeline_by_id"
    /\ IsSuccess(args.json_response)
    /\ Len(Entries(args.json_response)) = 1
    /\ ~PipelineMatches(Entries(args.json_response)[1], args.pipeline_id)
    /\ ret = Returns(Entries(args.json_response)[1])

\* ------------------------------------------------------------------------
\* harness.platform.get_service_by_id
\* ------------------------------------------------------------------------
\* the loop over content: the service of the first entry whose service
\* identifier, lower-cased, equals service_id lower-cased
RECURSIVE TargetService(_, _)
TargetService(content, service_id) ==
    IF content = <<>> THEN PyNone
    ELSE LET service == PyGet(Head(content), "service", PyDict(<<>>))
         IN  IF StrLower(PyGet(service, "identifier", PyStr("")).v)
                = StrLower(service_id.v)
             THEN service
             ELSE TargetService(Tail(content), service_id)

\* content[0].get("service").get("identifier"), identifier.lower(): a
\* missing key gives None, and None has neither get nor lower
SingleService(entry, service_id) ==
    LET service == PyGet(entry, "service", PyNone)
    IN  IF ~IsDict(service) THEN Raises("AttributeError")
        ELSE LET identifier == PyGet(service, "identifier", PyNone)
             IN  IF ~IsStr(identifier) THEN Raises("AttributeError")
                 ELSE IF StrLower(identifier.v) = StrLower(service_id.v)
                      THEN Returns(entry)
                      ELSE Returns(PyNone)

get_service_by_id(json_response, service_id) ==
    IF PyEq(PyGet(json_response, "status", PyNone), PyStr("SUCCESS"))
    THEN LET content == Content(json_response).v
         IN  IF Len(content) = 1
             THEN SingleService(content[1], service_id)
             ELSE IF Len(content) > 1
                  THEN LET target_service == TargetService(content, service_id)
                       IN  IF Truthy(target_service)
                           THEN Returns(target_service)
                           ELSE Returns(PyNone)
                  ELSE Returns(PyNone)
    ELSE Returns(PyNone)

CallGetServiceById ==
    /\ fn = "get_service_by_id"
    /\ ret = Pending
    /\ ret' = get_service_by_id(args.json_response, args.service_id)
    /\ UNCHANGED <<workspace_config, workspace_context, mismatches, idx, pc, exc,
                   recVars, fn, args, locals>>

\* ---- the responses ----
ServiceEntry(identifier) ==
    PyDict(<<Entry("service", PyDict(<<Entry("identifier", PyStr(identifier)),
                                       Entry("name", PyStr("n"))>>)),
             Entry("createdAt", PyInt(1))>>)

ServiceEntries ==
    {ServiceEntry(i) : i \in {"build", "Build", "deploy"}}
    \cup {PyDict(<<Entry("createdAt", PyInt(1))>>)}

ServiceResponses ==
    {Response(st, c) : st \in {"SUCCESS", "ERROR"},
                       c \in SeqsUpTo(ServiceEntries, MaxContent)}
    \cup {Bare("SUCCESS"), Bare("ERROR"), PyDict(<<>>)}

ServiceInit ==
    /\ WorkspaceIdle
    /\ fn = "get_service_by_id"
    /\ args \in [json_response : ServiceResponses,
                  service_id : {PyStr(i) : i \in {"build", "BUILD", "deploy", "test"}}]
    /\ locals = <<>>
    /\ ret = Pending

ServiceNext == CallGetServiceById

ServiceSpec == ServiceInit /\ [][ServiceNext]_vars

ServiceMatches(entry, service_id) ==
    /\ "service" \in DictKeys(entry)
    /\ "identifier" \in DictKeys(DictGet(entry, "service"))
    /\ SameIgnoringCase(DictGet(DictGet(entry, "service"), "identifier").v, service_id.v)

\* the first entry of the content whose service has that identifier, 0 if none
FirstServiceMatch(content, service_id) ==
    LET hits == {i \in 1..Len(content) : ServiceMatches(content[i], service_id)}
    IN  IF hits = {} THEN 0 ELSE CHOOSE i \in hits : \A j \in hits : i <= j

\* ------------------------------------------------------------------------
\* C16: for a response with status SUCCESS, get_service_by_id returns None
\* when no entry's service identifier equals service_id case-insensitively,
\* and otherwise the service data of the first matching entry, the same
\* part of the entry whether the content has one entry or several.
\* ------------------------------------------------------------------------
C16_ReturnsServiceOfFirstMatch ==
    fn = "get_service_by_id" /\ ret # Pending /\ IsSuccess(args.json_response) =>
        LET content == Entries(args.json_response)
            first == FirstServiceMatch(content, args.service_id)
        IN  IF first = 0
            THEN ret = Returns(PyNone)
            ELSE ret = Returns(DictGet(content[first], "service"))

\* the other reading of "the service data": the whole entry
C16_ReturnsEntryOfFirstMatch ==
    fn = "get_service_by_id" /\ ret # Pending /\ IsSuccess(args.json_response) =>
        LET content == Entries(args.json_response)
            first == FirstServiceMatch(content, args.service_id)
        IN  IF first = 0
            THEN ret = Returns(PyNone)
            ELSE ret = Returns(content[first])

\* what the code does: the entry from a content of one, the service inside
\* the entry from a content of several
C16_PartDependsOnCount ==
    /\ fn = "get_service_by_id" /\ ret # Pending /\ IsSuccess(args.json_response)
    /\ \A i \in 1..Len(Entries(args.json_response)) :
           "service" \in DictKeys(Entries(args.json_response)[i])
    => LET content == Entries(args.json_response)
           first == FirstServiceMatch(content, args.service_id)
       IN  IF first = 0 THEN ret = Returns(PyNone)
           ELSE IF Len(content) = 1 THEN ret = Returns(content[first])
           ELSE ret = Returns(DictGet(content[first], "service"))

\* a content of one entry whose service matches: the entry is returned, not
\* the service inside it
C16_SingleMatchReturnsEntry ==
    /\ fn = "get_service_by_id"
    /\ IsSuccess(args.json_response)
    /\ Len(Entries(args.json_response)) = 1
    /\ ServiceMatches(Entries(args.json_response)[1], args.service_id)
    /\ ret = Returns(Entries(args.json_response)[1])
    /\ ret # Returns(DictGet(Entries(args.json_response)[1], "service"))

\* ------------------------------------------------------------------------
\* utils.misc.get_stage_identifier_from_dict
\* ------------------------------------------------------------------------
\* value.get('spec', {}).get('service', {}).get('serviceRef')
ServiceRef(value) ==
    PyGet(PyGet(PyGet(value, "spec", PyDict(<<>>)), "service", PyDict(<<>>)),
          "serviceRef", PyNone)

\* the loop over pipeline_dict.items(), from the entries still to visit;
\* None.lower() raises AttributeError
RECURSIVE StageLoop(_, _, _)
StageLoop(entries, stage_type, service_name) ==
    IF entries = <<>> THEN Returns(PyNone)
    ELSE LET value == Head(entries).val
         IN  IF PyEq(PyGet(value, "type", PyNone), stage_type)
             THEN IF Truthy(service_name)
                  THEN LET service_ref == ServiceRef(value)
                       IN  IF ~IsStr(service_ref) THEN Raises("AttributeError")
                           ELSE IF StrLower(service_ref.v) = StrLower(service_name.v)
                                THEN Returns(DictGet(value, "identifier"))
                                ELSE StageLoop(Tail(entries), stage_type, service_name)
                  ELSE Returns(DictGet(value, "identifier"))
             ELSE StageLoop(Tail(entries), stage_type, service_name)

get_stage_identifier_from_dict(pipeline_dict, stage_type, service_name) ==
    StageLoop(pipeline_dict.v, stage_type, service_name)

CallGetStageIdentifier ==
    /\ fn = "get_stage_identifier_from_dict"
    /\ ret = Pending
    /\ ret' = get_stage_identifier_from_dict(args.pipeline_dict, args.stage_type,
                                             args.service_name)
    /\ UNCHANGED <<workspace_config, workspace_context, mismatches, idx, pc, exc,
                   recVars, fn, args, locals>>

\* ---- the pipelines ----
\* most stages in a pipeline
MaxStages == 3

\* what a stage is made of, its identifier apart: a type and a service
\* reference, "" for a stage whose spec names no service
StageKinds == [type : {"Deployment", "CI"}, ref : {"build", "Build", "deploy", ""}]

Stage(i, kind) ==
    PyDict(<<Entry("identifier", PyStr("id" \o ToString(i))),
             Entry("type", PyStr(kind.type))>>
           \o (IF kind.ref = ""
               THEN <<Entry("spec", PyDict(<<>>))>>
               ELSE <<Entry("spec",
                            PyDict(<<Entry("service",
                                           PyDict(<<Entry("serviceRef",
                                                          PyStr(kind.ref))>>))>>))>>))

PipelineDict(kinds) ==
    PyDict([i \in 1..Len(kinds) |-> Entry("stage" \o ToString(i), Stage(i, kinds[i]))])

StageInit ==
    /\ WorkspaceIdle
    /\ fn = "get_stage_identifier_from_dict"
    /\ args \in [pipeline_dict : {PipelineDict(ks) : ks \in SeqsUpTo(StageKinds, MaxStages)},
                  stage_type : {PyStr("Deployment"), PyStr("CI")},
                  service_name : {PyNone, PyStr("build"), PyStr("BUILD"), PyStr("test")}]
    /\ locals = <<>>
    /\ ret = Pending

StageNext == CallGetStageIdentifier

StageSpec == StageInit /\ [][StageNext]_vars

\* ---- the stage asked for ----
HasServiceRef(value) ==
    /\ "spec" \in DictKeys(value)
    /\ "service" \in DictKeys(DictGet(value, "spec"))
    /\ "serviceRef" \in DictKeys(DictGet(DictGet(value, "spec"), "service"))

StageMatches(value, stage_type, service_name) ==
    /\ DictGet(value, "type") = stage_type
    /\ service_name # PyNone =>
          /\ HasServiceRef(value)
          /\ SameIgnoringCase(
                 DictGet(DictGet(DictGet(value, "spec"), "service"), "serviceRef").v,
                 service_name.v)

\* ------------------------------------------------------------------------
\* C17: get_stage_identifier_from_dict returns the identifier of the first
\* stage in dictionary order whose type equals stage_type and, when
\* service_name is given, whose service reference equals service_name
\* case-insensitively; it returns None when no stage matches, a stage of
\* that type without a service reference included, and does not raise.
\* ------------------------------------------------------------------------
C17_FirstMatchingStageOrNone ==
    fn = "get_stage_identifier_from_dict" /\ ret # Pending =>
        LET stages == args.pipeline_dict.v
            hits == {i \in 1..Len(stages) :
                        StageMatches(stages[i].val, args.stage_type, args.service_name)}
        IN  IF hits = {}
            THEN ret = Returns(PyNone)
            ELSE ret = Returns(DictGet(stages[CHOOSE i \in hits : \A j \in hits : i <= j].val,
                                       "identifier"))

\* the same when every stage of that type visited before the answer has a
\* service reference, or no service_name is given
RefBeforeAnswer ==
    LET stages == args.pipeline_dict.v
        hits == {i \in 1..Len(stages) :
                    StageMatches(stages[i].val, args.stage_type, args.service_name)}
        last == IF hits = {} THEN Len(stages)
                ELSE CHOOSE i \in hits : \A j \in hits : i <= j
    IN  \/ args.service_name = PyNone
        \/ \A i \in 1..last :
               DictGet(stages[i].val, "type") = args.stage_type => HasServiceRef(stages[i].val)

C17_WithServiceRefs ==
    fn = "get_stage_identifier_from_dict" /\ ret # Pending /\ RefBeforeAnswer =>
        LET stages == args.pipeline_dict.v
            hits == {i \in 1..Len(stages) :
                        StageMatches(stages[i].val, args.stage_type, args.service_name)}
        IN  IF hits = {}
            THEN ret = Returns(PyNone)
            ELSE ret = Returns(DictGet(stages[CHOOSE i \in hits : \A j \in hits : i <= j].val,
                                       "identifier"))

\* a stage of the type without a service reference: the call raises
C17_Raises ==
    /\ fn = "get_stage_identifier_from_dict"
    /\ ret = Raises("AttributeError")

\* ------------------------------------------------------------------------
\* keycloak.auth.generate_keycloak_token
\* ------------------------------------------------------------------------
\* What requests.post may hand back: a status code and a body.  A body is
\* JSON text holding an object, or text that is no JSON (the error page of
\* a gateway); response.json() raises on the latter.
NotJson == [json |-> FALSE, data |-> PyNone]
Json(data) == [json |-> TRUE, data |-> data]

Bodies ==
    {Json(PyDict(<<Entry("access_token", PyStr(t)), Entry("expires_in", PyInt(60))>>)) :
         t \in {"tok1", "tok2", ""}}
    \cup {Json(PyDict(<<Entry("error", PyStr("invalid_grant"))>>)),
          Json(PyDict(<<>>)),
          NotJson}

HttpResponses == [status_code : {200, 400, 401, 502, 503}, body : Bodies]

NoResponse == [status_code |-> 0, body |-> NotJson]

\* the local variables: the statement about to run, response, keycloak_token
KeycloakLocals(at, response, keycloak_token) ==
    [at |-> at, response |-> response, keycloak_token |-> keycloak_token]

KeycloakRunning(at) ==
    /\ fn = "generate_keycloak_token"
    /\ ret = Pending
    /\ locals.at = at

\* response = requests.post(...)
Post ==
    /\ KeycloakRunning("post")
    /\ \E response \in HttpResponses :
           locals' = KeycloakLocals("status", response, PyNone)
    /\ UNCHANGED <<workspace_config, workspace_context, mismatches, idx, pc, exc,
                   recVars, fn, args, ret>>

\* requests.post raises: no connection, timeout
PostRaises ==
    /\ KeycloakRunning("post")
    /\ ret' = Raises("RequestException")
    /\ UNCHANGED <<workspace_config, workspace_context, mismatches, idx, pc, exc,
                   recVars, fn, args, locals>>

\* response.status_code != 200 and not cleanup
StatusExit ==
    /\ KeycloakRunning("status")
    /\ locals.response.status_code # 200
    /\ ~args.cleanup
    /\ ret' = Raises("SystemExit(1)")
    /\ UNCHANGED <<workspace_config, workspace_context, mismatches, idx, pc, exc,
                   recVars, fn, args, locals>>

\* status 200, or cleanup: go on to response.json()
StatusContinue ==
    /\ KeycloakRunning("status")
    /\ locals.response.status_code = 200 \/ args.cleanup
    /\ locals' = [locals EXCEPT !.at = "json"]
    /\ UNCHANGED <<workspace_config, workspace_context, mismatches, idx, pc, exc,
                   recVars, fn, args, ret>>

\* response.json() on a body that is no JSON
JsonRaises ==
    /\ KeycloakRunning("json")
    /\ ~locals.response.body.json
    /\ ret' = Raises("JSONDecodeError")
    /\ UNCHANGED <<workspace_config, workspace_context, mismatches, idx, pc, exc,
                   recVars, fn, args, locals>>

\* response_data = response.json(); keycloak_token = response_data.get("access_token")
JsonParsed ==
    /\ KeycloakRunning("json")
    /\ locals.response.body.json
    /\ locals' = [locals EXCEPT
                     !.at = "token",
                     !.keycloak_token = PyGet(locals.response.body.data,
                                              "access_token", PyNone)]
    /\ UNCHANGED <<workspace_config, workspace_context, mismatches, idx, pc, exc,
                   recVars, fn, args, ret>>

\* not keycloak_token and not cleanup
TokenExit ==
    /\ KeycloakRunning("token")
    /\ ~Truthy(locals.keycloak_token)
    /\ ~args.cleanup
    /\ ret' = Raises("SystemExit(1)")
    /\ UNCHANGED <<workspace_config, workspace_context, mismatches, idx, pc, exc,
                   recVars, fn, args, locals>>

\* not keycloak_token and cleanup: the function falls off its end
TokenMissingContinue ==
    /\ KeycloakRunning("token")
    /\ ~Truthy(locals.keycloak_token)
    /\ args.cleanup
    /\ ret' = Returns(PyNone)
    /\ UNCHANGED <<workspace_config, workspace_context, mismatches, idx, pc, exc,
                   recVars, fn, args, locals>>

\* return keycloak_token
TokenReturn ==
    /\ KeycloakRunning("token")
    /\ Truthy(locals.keycloak_token)
    /\ ret' = Returns(locals.keycloak_token)
    /\ UNCHANGED <<workspace_config, workspace_context, mismatches, idx, pc, exc,
                   recVars, fn, args, locals>>

KeycloakInit ==
    /\ WorkspaceIdle
    /\ fn = "generate_keycloak_token"
    /\ args \in [cleanup : BOOLEAN]
    /\ locals = KeycloakLocals("post", NoResponse, PyNone)
    /\ ret = Pending

KeycloakNext ==
    \/ Post \/ PostRaises \/ StatusExit \/ StatusContinue \/ JsonRaises
    \/ JsonParsed \/ TokenExit \/ TokenMissingContinue \/ TokenReturn

KeycloakSpec == KeycloakInit /\ [][KeycloakNext]_vars

\* ---- what the response carries ----
CarriesToken(response) ==
    /\ response.body.json
    /\ "access_token" \in DictKeys(response.body.data)
    /\ DictGet(response.body.data, "access_token").v # ""

Answered ==
    /\ fn = "generate_keycloak_token"
    /\ ret # Pending
    /\ locals.at # "post"

\* ------------------------------------------------------------------------
\* C18: generate_keycloak_token returns the access token when the response
\* is 200 and carries one; on failure (a response that is not 200, or no
\* access_token) it raises SystemExit(1) when cleanup is False, and when
\* cleanup is True it does not raise and returns None.
\* ------------------------------------------------------------------------
C18_TokenOrExitOrNone ==
    Answered =>
        LET response == locals.response
        IN  IF response.status_code = 200 /\ CarriesToken(response)
            THEN ret = Returns(DictGet(response.body.data, "access_token"))
            ELSE IF args.cleanup
                 THEN ret = Returns(PyNone)
                 ELSE ret = Raises("SystemExit(1)")

\* the same when the body is JSON, and a response that is not 200 carries
\* no token
C18_JsonFailureBodies ==
    /\ Answered
    /\ locals.response.body.json
    /\ locals.response.status_code # 200 => ~CarriesToken(locals.response)
    => LET response == locals.response
       IN  IF response.status_code = 200 /\ CarriesToken(response)
           THEN ret = Returns(DictGet(response.body.data, "access_token"))
           ELSE IF args.cleanup
                THEN ret = Returns(PyNone)
                ELSE ret = Raises("SystemExit(1)")

\* cleanup, a response that is not 200 and whose body is no JSON: the call
\* raises
C18_CleanupRaises ==
    /\ Answered
    /\ args.cleanup
    /\ locals.response.status_code # 200
    /\ ret = Raises("JSONDecodeError")

\* cleanup, a response that is not 200 and carries a token: the token is
\* returned
C18_CleanupReturnsToken ==
    /\ Answered
    /\ args.cleanup
    /\ locals.response.status_code # 200
    /\ ret.kind = "return"
    /\ ret.val # PyNone

\* ------------------------------------------------------------------------
\* utils.k8s.get_k8s_loadbalancer_ip
\* ------------------------------------------------------------------------
\* What one v1.read_namespaced_service may give: a service whose load
\* balancer has an ingress (ingress[0].ip is an address, or None for an
\* ingress known by host name only), a service without ingress (None or
\* an empty list), an ApiException, or an exception of another class (the
\* connection fails below the API client).
Ingress(ip) == [kind |-> "ingress", ip |-> ip]
NoIngress == [kind |-> "no_ingress", ip |-> PyNone]
ApiException == [kind |-> "ApiException", ip |-> PyNone]
OtherException == [kind |-> "OtherException", ip |-> PyNone]

ExternalIps == {PyStr("10.0.0.1"), PyStr("10.0.0.2"), PyNone}

\* the local variables: attempt, the statement about to run ("for": the
\* loop header, "sleep": time.sleep), and the reads made so far
K8sLocals(attempt, at, reads) == [attempt |-> attempt, at |-> at, reads |-> reads]

LoopContinuesShort(attempt, max_attempts) == attempt < max_attempts

\* attempt in range(1, max_attempts + 1)
LoopContinues(attempt, max_attempts) == attempt <= max_attempts

AtLoopHeader ==
    /\ fn = "get_k8s_loadbalancer_ip"
    /\ ret = Pending
    /\ locals.at = "for"

Looping == AtLoopHeader /\ LoopContinues(locals.attempt, args.max_attempts)

\* the read shows an ingress: return ingress[0].ip
ReadIngress ==
    /\ Looping
    /\ \E external_ip \in ExternalIps :
           /\ locals' = [locals EXCEPT !.reads = Append(@, Ingress(external_ip))]
           /\ ret' = Returns(external_ip)
    /\ UNCHANGED <<workspace_config, workspace_context, mismatches, idx, pc, exc,
                   recVars, fn, args>>

\* the read shows no ingress: print, go on to time.sleep
ReadNoIngress ==
    /\ Looping
    /\ locals' = [locals EXCEPT !.reads = Append(@, NoIngress), !.at = "sleep"]
    /\ UNCHANGED <<workspace_config, workspace_context, mismatches, idx, pc, exc,
                   recVars, fn, args, ret>>

\* except client.ApiException: print, go on to time.sleep
ReadApiException ==
    /\ Looping
    /\ locals' = [locals EXCEPT !.reads = Append(@, ApiException), !.at = "sleep"]
    /\ UNCHANGED <<workspace_config, workspace_context, mismatches, idx, pc, exc,
                   recVars, fn, args, ret>>

\* an exception the except clause does not name leaves the function
ReadOtherException ==
    /\ Looping
    /\ locals' = [locals EXCEPT !.reads = Append(@, OtherException)]
    /\ ret' = Raises("OtherException")
    /\ UNCHANGED <<workspace_config, workspace_context, mismatches, idx, pc, exc,
                   recVars, fn, args>>

\* time.sleep(sleep_time), then the next attempt
Sleep ==
    /\ fn = "get_k8s_loadbalancer_ip"
    /\ ret = Pending
    /\ locals.at = "sleep"
    /\ locals' = [locals EXCEPT !.attempt = @ + 1, !.at = "for"]
    /\ UNCHANGED <<workspace_config, workspace_context, mismatches, idx, pc, exc,
                   recVars, fn, args, ret>>

\* the range is used up: raise SystemExit(1)
AttemptsExhausted ==
    /\ AtLoopHeader
    /\ ~LoopContinues(locals.attempt, args.max_attempts)
    /\ ret' = Raises("SystemExit(1)")
    /\ UNCHANGED <<workspace_config, workspace_context, mismatches, idx, pc, exc,
                   recVars, fn, args, locals>>

\* largest max_attempts passed by a caller
MaxAttempts == 4
\* max_attempts when the caller passes none
DefaultMaxAttempts == 15

K8sInit ==
    /\ WorkspaceIdle
    /\ fn = "get_k8s_loadbalancer_ip"
    /\ args \in [max_attempts : (0..MaxAttempts) \cup {DefaultMaxAttempts}]
    /\ locals = K8sLocals(1, "for", <<>>)
    /\ ret = Pending

K8sNext ==
    \/ ReadIngress \/ ReadNoIngress \/ ReadApiException \/ ReadOtherException
    \/ Sleep \/ AttemptsExhausted

\* the call runs on one thread; a read and a sleep come back
K8sSpec == K8sInit /\ [][K8sNext]_vars /\ WF_vars(K8sNext)

\* ---- the reads of a call ----
ShowsNoIngress(read) == read.kind \in {"no_ingress", "ApiException"}

AllReadsFailed ==
    /\ Len(locals.reads) = args.max_attempts
    /\ \A i \in 1..Len(locals.reads) : ShowsNoIngress(locals.reads[i])

ReadsInOrder ==
    LET reads == locals.reads
        n == Len(reads)
    IN  /\ n <= args.max_attempts
        /\ \A i \in 1..(n - 1) : ShowsNoIngress(reads[i])
        /\ n >= 1 /\ reads[n].kind = "ingress" => ret = Returns(reads[n].ip)
        /\ ret.kind = "return" => n >= 1 /\ reads[n].kind = "ingress"
        /\ ret = Raises("SystemExit(1)") => AllReadsFailed
        /\ AllReadsFailed => ret.kind # "return"

\* ------------------------------------------------------------------------
\* C19: get_k8s_loadbalancer_ip reads the service at most max_attempts
\* times; it returns the IP of the first read that shows an ingress and
\* reads no more; if none of max_attempts reads shows an ingress, it
\* raises SystemExit(1) after exactly max_attempts reads and returns no
\* value.
\* ------------------------------------------------------------------------
C19_ReadsUntilIngressOrExit ==
    /\ [](fn = "get_k8s_loadbalancer_ip" => ReadsInOrder)
    /\ [](AllReadsFailed => <>(ret = Raises("SystemExit(1)") /\ AllReadsFailed))

\* a call that found the ingress at its third read, and one that gave up
\* after all its reads
C19_WitnessReturned ==
    /\ fn = "get_k8s_loadbalancer_ip"
    /\ Len(locals.reads) = 3
    /\ args.max_attempts > 3
    /\ ret = Returns(PyStr("10.0.0.2"))
    /\ locals.reads[1] = ApiException
    /\ locals.reads[2] = NoIngress

C19_WitnessExhausted ==
    /\ fn = "get_k8s_loadbalancer_ip"
    /\ args.max_attempts = DefaultMaxAttempts
    /\ AllReadsFailed
    /\ ret = Raises("SystemExit(1)")

\* ------------------------------------------------------------------------
\* utils.misc.generate_password and validate_password
\* ------------------------------------------------------------------------
\* The character pools, one character standing for each: the code looks at
\* a character only to ask which pool it is in.  A password under
\* construction is the bag of its characters: random.shuffle permutes the
\* list and ''.join strings it together, so the bag, and with it the length
\* and the pools met, is what they leave alone.
upper == {"A"}
lower == {"a"}
digits == {"0"}
all_characters == upper \cup lower \cup digits

\* any(char in upper ...) and any(char in lower ...) and any(char in digits ...)
validate_password(password, up, lo, di) ==
    /\ \E char \in BagToSet(password) : char \in up
    /\ \E char \in BagToSet(password) : char \in lo
    /\ \E char \in BagToSet(password) : char \in di

GuaranteedChoicesNoDigit(u, l, d) == SetToBag({u}) (+) SetToBag({l})

\* [secrets.choice(upper), secrets.choice(lower), secrets.choice(digits)]
GuaranteedChoices(u, l, d) == SetToBag({u}) (+) SetToBag({l}) (+) SetToBag({d})

\* shortest and longest password the function makes
MinLength == 4
MaxLength == 50
\* how far outside that range the lengths asked for go
Margin == 2
\* most iterations of "while True" followed
MaxIterations == 2

\* the local variables: the statement about to run, the password list, and
\* the number of iterations of "while True" begun
PasswordLocals(at, password, iterations) ==
    [at |-> at, password |-> password, iterations |-> iterations]

PasswordRunning(at) ==
    /\ fn = "generate_password"
    /\ ret.kind = "pending"
    /\ locals.at = at

\* length < 4
LengthTooSmall ==
    /\ PasswordRunning("check")
    /\ args.length < MinLength
    /\ ret' = Raises("ValueError")
    /\ UNCHANGED <<workspace_config, workspace_context, mismatches, idx, pc, exc,
                   recVars, fn, args, locals>>

\* length > 50
LengthTooLarge ==
    /\ PasswordRunning("check")
    /\ args.length >= MinLength
    /\ args.length > MaxLength
    /\ ret' = Raises("ValueError")
    /\ UNCHANGED <<workspace_config, workspace_context, mismatches, idx, pc, exc,
                   recVars, fn, args, locals>>

LengthAccepted ==
    /\ PasswordRunning("check")
    /\ args.length >= MinLength
    /\ args.length <= MaxLength
    /\ locals' = [locals EXCEPT !.at = "while"]
    /\ UNCHANGED <<workspace_config, workspace_context, mismatches, idx, pc, exc,
                   recVars, fn, args, ret>>

\* while True: password = [one of each pool]
StartPassword ==
    /\ PasswordRunning("while")
    /\ locals.iterations < MaxIterations
    /\ \E u \in upper, l \in lower, d \in digits :
           locals' = PasswordLocals("fill", GuaranteedChoices(u, l, d),
                                    locals.iterations + 1)
    /\ UNCHANGED <<workspace_config, workspace_context, mismatches, idx, pc, exc,
                   recVars, fn, args, ret>>

\* one secrets.choice(all_characters) of the length - len(password) made
FillOne ==
    /\ PasswordRunning("fill")
    /\ BagCardinality(locals.password) < args.length
    /\ \E char \in all_characters :
           locals' = [locals EXCEPT !.password = @ (+) SetToBag({char})]
    /\ UNCHANGED <<workspace_config, workspace_context, mismatches, idx, pc, exc,
                   recVars, fn, args, ret>>

\* random.shuffle(password); return it if validate_password, else go
\* round the loop
ShuffleAndValidate ==
    /\ PasswordRunning("fill")
    /\ BagCardinality(locals.password) >= args.length
    /\ IF validate_password(locals.password, upper, lower, digits)
       THEN /\ ret' = Returns(locals.password)
            /\ locals' = locals
       ELSE /\ ret' = ret
            /\ locals' = [locals EXCEPT !.at = "while"]
    /\ UNCHANGED <<workspace_config, workspace_context, mismatches, idx, pc, exc,
                   recVars, fn, args>>

PasswordInit ==
    /\ WorkspaceIdle
    /\ fn = "generate_password"
    /\ args \in [length : (MinLength - Margin)..(MaxLength + Margin)]
    /\ locals = PasswordLocals("check", EmptyBag, 0)
    /\ ret = Pending

PasswordNext ==
    \/ LengthTooSmall \/ LengthTooLarge \/ LengthAccepted
    \/ StartPassword \/ FillOne \/ ShuffleAndValidate

\* the call runs on one thread and every choice comes back
PasswordSpec == PasswordInit /\ [][PasswordNext]_vars /\ WF_vars(PasswordNext)

\* ---- the password returned ----
Alphanumeric == upper \cup lower \cup digits

GoodPassword(password, length) ==
    /\ BagCardinality(password) = length
    /\ BagToSet(password) \subseteq Alphanumeric
    /\ \E char \in BagToSet(password) : char \in upper
    /\ \E char \in BagToSet(password) : char \in lower
    /\ \E char \in BagToSet(password) : char \in digits

PasswordOutcome ==
    /\ locals.iterations <= 1
    /\ ret.kind # "pending" =>
          IF args.length >= 4 /\ args.length <= 50
          THEN ret.kind = "return" /\ GoodPassword(ret.val, args.length)
          ELSE ret.kind = "raise" /\ ret.val = PyStr("ValueError")

\* ------------------------------------------------------------------------
\* C20: for every length from 4 to 50 generate_password terminates and
\* returns a string of exactly that length over [A-Za-z0-9] with at least
\* one uppercase letter, one lowercase letter and one digit, in the first
\* iteration of its loop; for a length below 4 or above 50 it raises
\* ValueError.
\* ------------------------------------------------------------------------
C20_PasswordOrValueError ==
    /\ [](fn = "generate_password" => PasswordOutcome)
    /\ <>(ret.kind # "pending")

\* a password of the greatest length returned, most of it lowercase
C20_Witness ==
    /\ fn = "generate_password"
    /\ args.length = 50
    /\ ret.kind = "return"
    /\ BagCardinality(ret.val) = 50
    /\ CopiesIn("a", ret.val) > 40

\* ------------------------------------------------------------------------
\* harness.platform.invite_user_to_harness_project_loop
\* ------------------------------------------------------------------------
\* invite_response.get("status") of one invite request: SUCCESS, another
\* status, or None for a response without status
InviteStatuses == {PyStr("SUCCESS"), PyStr("ERROR"), PyStr("FAILURE"), PyNone}

max_attempts == 4

\* the local variables: the statement about to run ("first": the invite
\* before the loop, "while": the loop test), invite_attempts,
\* invite_status, and the status of every invite request made so far
InviteLocals(at, invite_attempts, invite_status, requests) ==
    [at |-> at, invite_attempts |-> invite_attempts,
     invite_status |-> invite_status, requests |-> requests]

InviteRunning(at) ==
    /\ fn = "invite_user_to_harness_project_loop"
    /\ ret = Pending
    /\ locals.at = at

\* invite_status != "SUCCESS" and invite_attempts < max_attempts
WhileCondition ==
    /\ ~PyEq(locals.invite_status, PyStr("SUCCESS"))
    /\ locals.invite_attempts < max_attempts

\* the invite before the loop
FirstInvite ==
    /\ InviteRunning("first")
    /\ \E invite_status \in InviteStatuses :
           locals' = InviteLocals("while", 0, invite_status, <<invite_status>>)
    /\ UNCHANGED <<workspace_config, workspace_context, mismatches, idx, pc, exc,
                   recVars, fn, args, ret>>

\* one iteration of the loop: invite again, invite_attempts += 1, sleep
RetryInvite ==
    /\ InviteRunning("while")
    /\ WhileCondition
    /\ \E invite_status \in InviteStatuses :
           locals' = InviteLocals("while", locals.invite_attempts + 1, invite_status,
                                  Append(locals.requests, invite_status))
    /\ UNCHANGED <<workspace_config, workspace_context, mismatches, idx, pc, exc,
                   recVars, fn, args, ret>>

\* requests.post or response.json() raises inside an invite
InviteRaises ==
    /\ \/ InviteRunning("first")
       \/ InviteRunning("while") /\ WhileCondition
    /\ ret' = Raises("RequestException")
    /\ UNCHANGED <<workspace_config, workspace_context, mismatches, idx, pc, exc,
                   recVars, fn, args, locals>>

\* after the loop, invite_status == "SUCCESS"
InviteSucceeded ==
    /\ InviteRunning("while")
    /\ ~WhileCondition
    /\ PyEq(locals.invite_status, PyStr("SUCCESS"))
    /\ ret' = Returns(PyNone)
    /\ UNCHANGED <<workspace_config, workspace_context, mismatches, idx, pc, exc,
                   recVars, fn, args, locals>>

\* after the loop, another status: raise SystemExit(1)
InviteGaveUp ==
    /\ InviteRunning("while")
    /\ ~WhileCondition
    /\ ~PyEq(locals.invite_status, PyStr("SUCCESS"))
    /\ ret' = Raises("SystemExit(1)")
    /\ UNCHANGED <<workspace_config, workspace_context, mismatches, idx, pc, exc,
                   recVars, fn, args, locals>>

InviteInit ==
    /\ WorkspaceIdle
    /\ fn = "invite_user_to_harness_project_loop"
    /\ args = <<>>
    /\ locals = InviteLocals("first", 0, PyNone, <<>>)
    /\ ret = Pending

InviteNext ==
    \/ FirstInvite \/ RetryInvite \/ InviteRaises \/ InviteSucceeded \/ InviteGaveUp

\* the call runs on one thread; a request and a sleep come back
InviteSpec == InviteInit /\ [][InviteNext]_vars /\ WF_vars(InviteNext)

\* ---- the requests of a call ----
EveryInviteFailed ==
    \A i \in 1..Len(locals.requests) : locals.requests[i] # PyStr("SUCCESS")

\* ------------------------------------------------------------------------
\* C21: when every invite response has a status other than SUCCESS,
\* invite_user_to_harness_project_loop gives up after 4 invite requests in
\* total and then raises SystemExit(1).
\* ------------------------------------------------------------------------
C21_GivesUpAfterFourRequests ==
    fn = "invite_user_to_harness_project_loop" /\ EveryInviteFailed =>
        /\ Len(locals.requests) <= 4
        /\ ret = Raises("SystemExit(1)") => Len(locals.requests) = 4

\* what the code does: the invite before the loop and max_attempts more
C21_FiveRequests ==
    fn = "invite_user_to_harness_project_loop" /\ EveryInviteFailed =>
        /\ Len(locals.requests) <= max_attempts + 1
        /\ ret = Raises("SystemExit(1)") => Len(locals.requests) = max_attempts + 1

\* every call comes to an end
C21_Ends == <>(ret # Pending)

\* ------------------------------------------------------------------------
\* utils.misc.validate_stage_configuration
\* ------------------------------------------------------------------------
\* The list a piece of the function has appended, or the exception that
\* left it
Done(out) == [exc |-> "none", out |-> out]
Failed(exception) == [exc |-> exception, out |-> <<>>]
Then(first, rest) ==
    IF first.exc # "none" THEN first
    ELSE IF rest.exc # "none" THEN rest
    ELSE Done(first.out \o rest.out)

StageMismatch(path, stage_name, stage_type, expected, actual, message) ==
    [path |-> path, stage_name |-> stage_name, stage_type |-> stage_type,
     expected |-> expected, actual |-> actual, message |-> message]

\* sub in s, for the strings of the model
StrIn(sub, s) == sub = "" \/ sub = s \/ sub \in StrChars(s)

\* "item in actual_value" raises TypeError: a container that has no "in",
\* an unhashable item looked up in a dict, a non-string looked for in a
\* string
InRaises(item, container) ==
    CASE IsDict(container) -> IsDict(item) \/ IsList(item)
      [] IsList(container) -> FALSE
      [] IsStr(container) -> ~IsStr(item)
      [] OTHER -> TRUE

\* item in actual_value, where it does not raise; the keys of a dict are
\* strings
InValue(item, container) ==
    CASE IsDict(container) -> IsStr(item) /\ item.v \in DictKeys(container)
      [] IsList(container) -> PyIn(item, container)
      [] IsStr(container) -> StrIn(item.v, container.v)
      [] OTHER -> FALSE

\* the loop over expected_value.items(), from the entries still to visit
RECURSIVE StageSubLoop(_, _, _, _, _)
StageSubLoop(stage_name, stage_type, key, entries, actual_value) ==
    IF entries = <<>> THEN Done(<<>>)
    ELSE LET sub_key == Head(entries).key
             sub_expected_value == Head(entries).val
             path == stage_name \o "." \o key \o "." \o sub_key
             rest == StageSubLoop(stage_name, stage_type, key, Tail(entries), actual_value)
         IN  IF InRaises(PyStr(sub_key), actual_value) THEN Failed("TypeError")
             ELSE IF ~InValue(PyStr(sub_key), actual_value)
             THEN Then(Done(<<StageMismatch(path, stage_name, stage_type,
                                            sub_expected_value, PyNone,
                                            "key_not_found")>>), rest)
             ELSE IF ~IsDict(actual_value) THEN Failed("TypeError")
             ELSE IF ~PyEq(DictGet(actual_value, sub_key), sub_expected_value)
             THEN Then(Done(<<StageMismatch(path, stage_name, stage_type,
                                            sub_expected_value,
                                            DictGet(actual_value, sub_key),
                                            "mismatch")>>), rest)
             ELSE rest

\* the loop over the items of an expected list
RECURSIVE StageListLoop(_, _, _, _, _)
StageListLoop(stage_name, stage_type, key, items, actual_value) ==
    IF items = <<>> THEN Done(<<>>)
    ELSE LET item == Head(items)
             rest == StageListLoop(stage_name, stage_type, key, Tail(items), actual_value)
         IN  IF InRaises(item, actual_value) THEN Failed("TypeError")
             ELSE IF ~InValue(item, actual_value)
             THEN Then(Done(<<StageMismatch(stage_name \o "." \o key, stage_name,
                                            stage_type, item, PyNone,
                                            "list_item_not_found")>>), rest)
             ELSE rest

\* one iteration of the loop over stage_context.items()
StageKeyStep(stage_name, stage_details, key, expected_value) ==
    LET spec == PyGet(stage_details, "spec", PyDict(<<>>))
        stage_type == PyGet(stage_details, "type", PyNone)
        path == stage_name \o "." \o key
    IN  IF InRaises(PyStr(key), spec) THEN Failed("TypeError")
        ELSE IF ~InValue(PyStr(key), spec)
        THEN Done(<<StageMismatch(path, stage_name, stage_type, expected_value, PyNone,
                                  "root_key_not_found")>>)
        ELSE IF ~IsDict(spec) THEN Failed("TypeError")
        ELSE LET actual_value == DictGet(spec, key)
             IN  IF IsDict(expected_value)
                 THEN StageSubLoop(stage_name, stage_type, key, expected_value.v,
                                   actual_value)
                 ELSE IF IsList(expected_value)
                 THEN StageListLoop(stage_name, stage_type, key, expected_value.v,
                                    actual_value)
                 ELSE IF ~PyEq(actual_value, expected_value)
                 THEN Done(<<StageMismatch(path, stage_name, stage_type, expected_value,
                                           actual_value, "mismatch")>>)
                 ELSE Done(<<>>)

\* the loop over stage_context.items(), from the entries still to visit
RECURSIVE StageContextLoop(_, _, _)
StageContextLoop(stage_name, stage_details, entries) ==
    IF entries = <<>> THEN Done(<<>>)
    ELSE Then(StageKeyStep(stage_name, stage_details, Head(entries).key, Head(entries).val),
              StageContextLoop(stage_name, stage_details, Tail(entries)))

\* the loop over stages_dict.items(); stage_context.items() on a value
\* that is no dict raises AttributeError
RECURSIVE StagesLoop(_, _, _)
StagesLoop(stages, stage_id, stage_context) ==
    IF stages = <<>> THEN Done(<<>>)
    ELSE LET stage_name == Head(stages).key
             stage_details == Head(stages).val
         IN  IF StrLower(PyGet(stage_details, "identifier", PyStr("")).v)
                = StrLower(stage_id.v)
             THEN IF ~IsDict(stage_context) THEN Failed("AttributeError")
                  ELSE Then(StageContextLoop(stage_name, stage_details, stage_context.v),
                            StagesLoop(Tail(stages), stage_id, stage_context))
             ELSE StagesLoop(Tail(stages), stage_id, stage_context)

validate_stage_configuration(stages_dict, stage_id, stage_context) ==
    LET result == StagesLoop(stages_dict.v, stage_id, stage_context)
    IN  IF result.exc = "none"
        THEN [kind |-> "return", val |-> result.out]
        ELSE [kind |-> "raise", val |-> result.exc]

CallValidateStage ==
    /\ fn = "validate_stage_configuration"
    /\ ret.kind = "pending"
    /\ ret' = validate_stage_configuration(args.stages_dict, args.stage_id,
                                           args.stage_context)
    /\ UNCHANGED <<workspace_config, workspace_context, mismatches, idx, pc, exc,
                   recVars, fn, args, locals>>

\* ---- the same expected context and actual configuration given to both ----
StageDetails(identifier, spec) ==
    PyDict(<<Entry("identifier", PyStr(identifier)),
             Entry("type", PyStr("Deployment")),
             Entry("spec", spec)>>)

\* the stage asked for, alone or after a stage with another identifier
StagesWith(spec) ==
    {PyDict(<<Entry("s1", StageDetails(i, spec))>>) : i \in {"build", "Build"}}
    \cup {PyDict(<<Entry("s0", StageDetails("deploy", PyDict(<<>>))),
                   Entry("s1", StageDetails("build", spec))>>)}

BothInit ==
    /\ workspace_context \in ExpectedRoots \cup OtherContexts
    /\ workspace_config \in ConfigsFor(workspace_context)
    /\ mismatches = <<>>
    /\ idx = 1
    /\ pc = "loop"
    /\ exc = "none"
    /\ stack = <<>>
    /\ visited = <<>>
    /\ fn = "validate_stage_configuration"
    /\ args \in [stages_dict : StagesWith(workspace_config),
                  stage_id : {PyStr("build")},
                  stage_context : {workspace_context}]
    /\ locals = <<>>
    /\ ret = Pending

BothNext ==
    \/ ItemsAttributeError \/ RootTypeError \/ KeyNotFound \/ KeyCompare \/ Return
    \/ CallValidateStage

BothSpec == BothInit /\ [][BothNext]_vars

\* ---- what the two calls report ----
BothOver == pc \in {"returned", "raised"} /\ ret.kind # "pending"

\* path, expected and actual of the mismatches of the workspace call, the
\* path put under the name of the stage
WorkspaceReports ==
    {[path |-> "s1." \o mismatches[i].path,
      expected |-> mismatches[i].expected,
      actual |-> mismatches[i].actual] : i \in 1..Len(mismatches)}

StageReports ==
    {[path |-> ret.val[i].path,
      expected |-> ret.val[i].expected,
      actual |-> ret.val[i].actual] : i \in 1..Len(ret.val)}

\* ------------------------------------------------------------------------
\* C22: validate_stage_configuration and validate_workspace_configuration
\* implement the same comparison: given the same expected context and the
\* same actual configuration, neither raises where the other returns, and
\* both report mismatches for the same relative paths with the same
\* expected and actual values.
\* ------------------------------------------------------------------------
C22_SameComparison ==
    BothOver =>
        /\ pc = "returned" <=> ret.kind = "return"
        /\ pc = "returned" /\ ret.kind = "return" => WorkspaceReports = StageReports

\* the two agree where the expected context is flat: scalars only, no
\* string among them standing against a boolean, and the actual
\* configuration a dict
FlatContext ==
    /\ IsDict(workspace_context)
    /\ IsDict(workspace_config)
    /\ \A i \in 1..Len(workspace_context.v) :
           LET e == workspace_context.v[i]
           IN  /\ ~IsDict(e.val) /\ ~IsList(e.val)
               /\ IsStr(e.val) /\ e.key \in DictKeys(workspace_config)
                     => ~IsBool(DictGet(workspace_config, e.key))

C22_SameOnFlatContexts ==
    BothOver /\ FlatContext =>
        /\ pc = "returned" /\ ret.kind = "return"
        /\ WorkspaceReports = StageReports

\* the stage call raises where the workspace call returns
C22_StageRaisesAlone == BothOver /\ pc = "returned" /\ ret.kind = "raise"

\* both return, with different reports
C22_DifferentReports ==
    /\ BothOver
    /\ pc = "returned" /\ ret.kind = "return"
    /\ WorkspaceReports # StageReports

\* ------------------------------------------------------------------------
\* harness.platform.delete_harness_project, delete_harness_user and
\* keycloak.user.delete_keycloak_user
\* ------------------------------------------------------------------------
HarnessDeletes == {"delete_harness_project", "delete_harness_user"}
DeleteFunctions == HarnessDeletes \cup {"delete_keycloak_user"}

\* what get_harness_user_id and get_keycloak_user_id may return
UserIds == {PyNone, PyStr(""), PyStr("u1"), PyStr("u2")}

\* what requests.delete may hand back: Harness answers with a JSON object
\* that may hold a status, or with text that is no JSON; Keycloak is asked
\* for its status code only
DeleteBodies ==
    {Json(PyDict(<<Entry("status", PyStr(st))>>)) : st \in {"SUCCESS", "ERROR", "FAILURE"}}
    \cup {Json(PyDict(<<Entry("message", PyStr("x"))>>)), NotJson}

DeleteResponses(function) ==
    IF function \in HarnessDeletes
    THEN [status_code : {200, 400}, body : DeleteBodies]
    ELSE [status_code : {204, 200, 401, 404, 500}, body : {NotJson}]

\* the local variables: the statement about to run, user_id, response
DeleteLocals(at, user_id, response) ==
    [at |-> at, user_id |-> user_id, response |-> response]

DeleteRunning(at) ==
    /\ fn \in DeleteFunctions
    /\ ret = Pending
    /\ locals.at = at

\* "user_id is None" in delete_harness_user, "not user_id" in
\* delete_keycloak_user
NoUser(function, user_id) ==
    CASE function = "delete_harness_user" -> user_id = PyNone
      [] function = "delete_keycloak_user" -> ~Truthy(user_id)
      [] OTHER -> FALSE

\* response_status == "SUCCESS"; response_code != 204 is false
DeleteSucceeds(function, response) ==
    IF function \in HarnessDeletes
    THEN PyEq(PyGet(response.body.data, "status", PyNone), PyStr("SUCCESS"))
    ELSE response.status_code = 204

RaisesOnFailureAlways(cleanup) == TRUE

\* if cleanup: print ... else: raise SystemExit(1)
RaisesOnFailure(cleanup) == ~cleanup

\* user_id = get_harness_user_id(...) / get_keycloak_user_id(...)
LookupUserId ==
    /\ DeleteRunning("lookup")
    /\ \E user_id \in UserIds : locals' = DeleteLocals("test", user_id, NoResponse)
    /\ UNCHANGED <<workspace_config, workspace_context, mismatches, idx, pc, exc,
                   recVars, fn, args, ret>>

\* no user id: print, nothing is sent
NothingToDelete ==
    /\ DeleteRunning("test")
    /\ NoUser(fn, locals.user_id)
    /\ ret' = Returns(PyNone)
    /\ UNCHANGED <<workspace_config, workspace_context, mismatches, idx, pc, exc,
                   recVars, fn, args, locals>>

\* response = requests.delete(url, headers=headers)
SendDelete ==
    /\ DeleteRunning("test")
    /\ ~NoUser(fn, locals.user_id)
    /\ \E response \in DeleteResponses(fn) :
           locals' = DeleteLocals("sent", locals.user_id, response)
    /\ UNCHANGED <<workspace_config, workspace_context, mismatches, idx, pc, exc,
                   recVars, fn, args, ret>>

\* response.json() on a body that is no JSON
DeleteJsonRaises ==
    /\ DeleteRunning("sent")
    /\ fn \in HarnessDeletes
    /\ ~locals.response.body.json
    /\ ret' = Raises("JSONDecodeError")
    /\ UNCHANGED <<workspace_config, workspace_context, mismatches, idx, pc, exc,
                   recVars, fn, args, locals>>

DeleteParsed == fn \in HarnessDeletes => locals.response.body.json

DeleteSucceeded ==
    /\ DeleteRunning("sent")
    /\ DeleteParsed
    /\ DeleteSucceeds(fn, locals.response)
    /\ ret' = Returns(PyNone)
    /\ UNCHANGED <<workspace_config, workspace_context, mismatches, idx, pc, exc,
                   recVars, fn, args, locals>>

DeleteFailedExit ==
    /\ DeleteRunning("sent")
    /\ DeleteParsed
    /\ ~DeleteSucceeds(fn, locals.response)
    /\ RaisesOnFailure(args.cleanup)
    /\ ret' = Raises("SystemExit(1)")
    /\ UNCHANGED <<workspace_config, workspace_context, mismatches, idx, pc, exc,
                   recVars, fn, args, locals>>

DeleteFailedContinue ==
    /\ DeleteRunning("sent")
    /\ DeleteParsed
    /\ ~DeleteSucceeds(fn, locals.response)
    /\ ~RaisesOnFailure(args.cleanup)
    /\ ret' = Returns(PyNone)
    /\ UNCHANGED <<workspace_config, workspace_context, mismatches, idx, pc, exc,
                   recVars, fn, args, locals>>

\* delete_harness_project is given the project id; the other two look the
\* user id up first
DeleteInit ==
    /\ WorkspaceIdle
    /\ fn \in DeleteFunctions
    /\ args \in [cleanup : BOOLEAN]
    /\ locals \in IF fn = "delete_harness_project"
                  THEN {DeleteLocals("test", id, NoResponse) : id \in {PyStr("p1"), PyStr("p2")}}
                  ELSE {DeleteLocals("lookup", PyNone, NoResponse)}
    /\ ret = Pending

DeleteNext ==
    \/ LookupUserId \/ NothingToDelete \/ SendDelete \/ DeleteJsonRaises
    \/ DeleteSucceeded \/ DeleteFailedExit \/ DeleteFailedContinue

DeleteSpec == DeleteInit /\ [][DeleteNext]_vars

\* ---- what the answer to the delete request says ----
\* Harness reports in the status of its JSON answer, Keycloak in the
\* status code
ReportsSuccess ==
    IF fn \in HarnessDeletes
    THEN /\ locals.response.body.json
         /\ "status" \in DictKeys(locals.response.body.data)
         /\ DictGet(locals.response.body.data, "status") = PyStr("SUCCESS")
    ELSE locals.response.status_code = 204

ReportsFailure == ~ReportsSuccess

\* the failures the functions themselves test for: a JSON answer whose
\* status is not SUCCESS, a status code other than 204
ReportsFailureAsTested ==
    IF fn \in HarnessDeletes
    THEN locals.response.body.json /\ ~ReportsSuccess
    ELSE locals.response.status_code # 204

DeleteAnswered ==
    /\ fn \in DeleteFunctions
    /\ locals.at = "sent"
    /\ ret # Pending

\* ------------------------------------------------------------------------
\* C23: in delete_harness_project, delete_harness_user and
\* delete_keycloak_user, when the delete request is sent and reports
\* failure the function raises SystemExit(1) if cleanup is False and
\* returns without raising if cleanup is True; when the delete succeeds
\* it returns for either value of cleanup.  Any answer that does not
\* report success is a failure, a body that is no JSON included.
\* ------------------------------------------------------------------------
C23_ExitOnlyWithoutCleanup ==
    DeleteAnswered =>
        /\ ReportsSuccess => ret = Returns(PyNone)
        /\ ReportsFailure /\ args.cleanup => ret = Returns(PyNone)
        /\ ReportsFailure /\ ~args.cleanup => ret = Raises("SystemExit(1)")

\* where the code does as C23 says: on the failures it tests for
C23_ExitOnTestedFailures ==
    DeleteAnswered =>
        /\ ReportsSuccess => ret = Returns(PyNone)
        /\ ReportsFailureAsTested /\ args.cleanup => ret = Returns(PyNone)
        /\ ReportsFailureAsTested /\ ~args.cleanup => ret = Raises("SystemExit(1)")

\* a failed delete of a Keycloak user, let through by cleanup
C23_Witness ==
    /\ DeleteAnswered
    /\ fn = "delete_keycloak_user"
    /\ args.cleanup
    /\ ReportsFailure
    /\ ret = Returns(PyNone)

\* a Harness delete answered with a body that is no JSON raises although
\* cleanup is set
C23_CleanupRaises ==
    /\ DeleteAnswered
    /\ fn \in HarnessDeletes
    /\ args.cleanup
    /\ ReportsFailure
    /\ ret = Raises("JSONDecodeError")

\* the exit without cleanup, and a JSON failure let through by cleanup
C23_WitnessHarness ==
    /\ DeleteAnswered
    /\ fn = "delete_harness_user"
    /\ ~args.cleanup
    /\ ReportsFailureAsTested
    /\ ret = Raises("SystemExit(1)")

C23_WitnessProject ==
    /\ DeleteAnswered
    /\ fn = "delete_harness_project"
    /\ args.cleanup
    /\ ReportsFailureAsTested
    /\ ret = Returns(PyNone)

\* ------------------------------------------------------------------------
\* utils.misc.validate_steps_in_stage
\* ------------------------------------------------------------------------
StepRecord(step_key, stage_name, stage_type, property, expected, actual, message) ==
    [step_key |-> step_key, stage_name |-> stage_name, stage_type |-> stage_type,
     property |-> property, expected |-> expected, actual |-> actual,
     message |-> message]

\* [x["step"] for x in entries if "step" in x]
RECURSIVE StepsOf(_)
StepsOf(entries) ==
    IF entries = <<>> THEN <<>>
    ELSE (IF "step" \in DictKeys(Head(entries))
          THEN <<DictGet(Head(entries), "step")>>
          ELSE <<>>)
         \o StepsOf(Tail(entries))

\* the loop that fills flat_steps, from the entries still to visit
RECURSIVE FlatSteps(_)
FlatSteps(steps) ==
    IF steps = <<>> THEN <<>>
    ELSE LET step_entry == Head(steps)
         IN  (IF "step" \in DictKeys(step_entry)
              THEN <<DictGet(step_entry, "step")>>
              ELSE IF "parallel" \in DictKeys(step_entry)
              THEN StepsOf(DictGet(step_entry, "parallel").v)
              ELSE IF "stepGroup" \in DictKeys(step_entry)
              THEN StepsOf(DictGet(DictGet(step_entry, "stepGroup"), "steps").v)
              ELSE <<>>)
             \o FlatSteps(Tail(steps))

\* the test of the list comprehension that builds matching_steps
StepMatches(step, step_key) ==
    \/ StrLower(PyGet(step, "type", PyStr("")).v) = StrLower(step_key)
    \/ StrLower(PyGet(step, "name", PyStr("")).v) = StrLower(step_key)
    \/ StrLower(PyGet(step, "identifier", PyStr("")).v) = StrLower(step_key)

MatchingSteps(flat_steps, step_key) ==
    SelectSeq(flat_steps, LAMBDA step : StepMatches(step, step_key))

\* the loop over expected_value.items(); actual_value.get on a value that
\* is truthy and no dict raises AttributeError
RECURSIVE CheckSubProperties(_, _, _, _, _, _)
CheckSubProperties(step_key, stage_name, stage_type, prop_key, entries, actual_value) ==
    IF entries = <<>> THEN Done(<<>>)
    ELSE IF Truthy(actual_value) /\ ~IsDict(actual_value) THEN Failed("AttributeError")
    ELSE LET sub_key == Head(entries).key
             sub_expected_value == Head(entries).val
             sub_actual_value == IF Truthy(actual_value)
                                 THEN PyGet(actual_value, sub_key, PyNone)
                                 ELSE PyNone
             rest == CheckSubProperties(step_key, stage_name, stage_type, prop_key,
                                        Tail(entries), actual_value)
         IN  IF ~PyEq(sub_actual_value, sub_expected_value)
             THEN Then(Done(<<StepRecord(step_key, stage_name, stage_type,
                                         PyStr(prop_key \o "." \o sub_key),
                                         sub_expected_value, sub_actual_value,
                                         "mismatch")>>), rest)
             ELSE rest

\* the loop over expected_properties.items() for one step
RECURSIVE CheckProperties(_, _, _, _, _)
CheckProperties(step_key, stage_name, stage_type, step, entries) ==
    IF entries = <<>> THEN Done(<<>>)
    ELSE LET prop_key == Head(entries).key
             expected_value == Head(entries).val
             actual_value == PyGet(step, prop_key, PyNone)
             rest == CheckProperties(step_key, stage_name, stage_type, step, Tail(entries))
         IN  IF IsDict(expected_value)
             THEN Then(CheckSubProperties(step_key, stage_name, stage_type, prop_key,
                                          expected_value.v, actual_value), rest)
             ELSE IF ~PyEq(actual_value, expected_value)
             THEN Then(Done(<<StepRecord(step_key, stage_name, stage_type,
                                         PyStr(prop_key), expected_value, actual_value,
                                         "mismatch")>>), rest)
             ELSE rest

\* the loop over matching_steps
RECURSIVE CheckSteps(_, _, _, _, _)
CheckSteps(step_key, stage_name, stage_type, matching_steps, expected_properties) ==
    IF matching_steps = <<>> THEN Done(<<>>)
    ELSE Then(CheckProperties(step_key, stage_name, stage_type, Head(matching_steps),
                              expected_properties.v),
              CheckSteps(step_key, stage_name, stage_type, Tail(matching_steps),
                         expected_properties))

\* the loop over step_context.items(), from the entries still to visit
RECURSIVE StepContextLoop(_, _, _, _)
StepContextLoop(stage_name, stage_type, flat_steps, entries) ==
    IF entries = <<>> THEN Done(<<>>)
    ELSE LET step_key == Head(entries).key
             expected_properties == Head(entries).val
             matching_steps == MatchingSteps(flat_steps, step_key)
             rest == StepContextLoop(stage_name, stage_type, flat_steps, Tail(entries))
         IN  IF matching_steps = <<>>
             THEN Then(Done(<<StepRecord(step_key, stage_name, stage_type,
                                         PyNone, PyNone, PyNone, "step_not_found")>>),
                       rest)
             ELSE Then(CheckSteps(step_key, stage_name, stage_type, matching_steps,
                                  expected_properties), rest)

\* the loop over stages_dict.items()
RECURSIVE StepStagesLoop(_, _, _)
StepStagesLoop(stages, stage_id, step_context) ==
    IF stages = <<>> THEN Done(<<>>)
    ELSE LET stage_name == Head(stages).key
             stage_details == Head(stages).val
             stage_type == PyGet(stage_details, "type", PyNone)
             execution == PyGet(PyGet(stage_details, "spec", PyDict(<<>>)),
                                "execution", PyDict(<<>>))
             steps == PyGet(execution, "steps", PyList(<<>>))
         IN  IF StrLower(PyGet(stage_details, "identifier", PyStr("")).v)
                = StrLower(stage_id.v)
             THEN Then(StepContextLoop(stage_name, stage_type, FlatSteps(steps.v),
                                       step_context.v),
                       StepStagesLoop(Tail(stages), stage_id, step_context))
             ELSE StepStagesLoop(Tail(stages), stage_id, step_context)

validate_steps_in_stage(stages_dict, stage_id, step_context) ==
    LET result == StepStagesLoop(stages_dict.v, stage_id, step_context)
    IN  IF result.exc = "none"
        THEN [kind |-> "return", val |-> result.out]
        ELSE [kind |-> "raise", val |-> result.exc]

CallValidateSteps ==
    /\ fn = "validate_steps_in_stage"
    /\ ret.kind = "pending"
    /\ ret' = validate_steps_in_stage(args.stages_dict, args.stage_id, args.step_context)
    /\ UNCHANGED <<workspace_config, workspace_context, mismatches, idx, pc, exc,
                   recVars, fn, args, locals>>

\* ---- the stages ----
\* most entries in the steps of an execution, and in a parallel block or
\* step group of steps
MaxSteps == 2

Steps ==
    {PyDict(<<Entry("type", PyStr("Run")), Entry("name", PyStr("Build")),
              Entry("identifier", PyStr("build1")), Entry("timeout", PyStr("10m")),
              Entry("spec", PyDict(<<Entry("shell", PyStr("Bash"))>>))>>),
     PyDict(<<Entry("type", PyStr("Plugin")), Entry("name", PyStr("Deploy")),
              Entry("identifier", PyStr("deploy1")), Entry("timeout", PyStr("5m"))>>)}

StepEntry(step) == PyDict(<<Entry("step", step)>>)
Parallel(entries) == PyDict(<<Entry("parallel", PyList(entries))>>)
StepGroup(entries) ==
    PyDict(<<Entry("stepGroup", PyDict(<<Entry("identifier", PyStr("g")),
                                         Entry("steps", PyList(entries))>>))>>)

NonEmptySeqs(S, n) == UNION {[1..m -> S] : m \in 1..n}

\* steps, blocks and groups of steps, and blocks and groups that hold one
\* block or group
PlainEntries == {StepEntry(step) : step \in Steps}
BlockEntries ==
    {Parallel(es) : es \in NonEmptySeqs(PlainEntries, MaxSteps)}
    \cup {StepGroup(es) : es \in NonEmptySeqs(PlainEntries, MaxSteps)}
NestedEntries ==
    {Parallel(<<e>>) : e \in BlockEntries} \cup {StepGroup(<<e>>) : e \in BlockEntries}

StepEntries == PlainEntries \cup BlockEntries \cup NestedEntries

StageWithSteps(steps) ==
    PyDict(<<Entry("s1",
                   StageDetails("build",
                                PyDict(<<Entry("execution",
                                               PyDict(<<Entry("steps",
                                                              PyList(steps))>>))>>)))>>)

ExpectedProperties ==
    {PyDict(<<>>),
     PyDict(<<Entry("timeout", PyStr("10m"))>>),
     PyDict(<<Entry("spec", PyDict(<<Entry("shell", PyStr("Bash"))>>))>>)}

StepContexts ==
    {PyDict(<<Entry(k, props)>>) :
         k \in {"run", "RUN", "deploy", "deploy1", "test"}, props \in ExpectedProperties}
    \cup {PyDict(<<Entry("test", PyDict(<<>>)), Entry("Run", PyDict(<<>>))>>)}

StepsInit ==
    /\ WorkspaceIdle
    /\ fn = "validate_steps_in_stage"
    /\ args \in [stages_dict : {StageWithSteps(steps) :
                                    steps \in SeqsUpTo(StepEntries, MaxSteps)},
                  stage_id : {PyStr("build"), PyStr("BUILD")},
                  step_context : StepContexts]
    /\ locals = <<>>
    /\ ret = Pending

StepsNext == CallValidateSteps

StepsSpec == StepsInit /\ [][StepsNext]_vars

\* ---- the steps of a stage, at any nesting ----
RECURSIVE AllSteps(_)
AllSteps(entries) ==
    UNION {LET entry == entries[i]
           IN  IF "step" \in DictKeys(entry) THEN {DictGet(entry, "step")}
               ELSE IF "parallel" \in DictKeys(entry)
               THEN AllSteps(DictGet(entry, "parallel").v)
               ELSE IF "stepGroup" \in DictKeys(entry)
               THEN AllSteps(DictGet(DictGet(entry, "stepGroup"), "steps").v)
               ELSE {} : i \in 1..Len(entries)}

\* the steps not deeper than one parallel block or one step group
ShallowSteps(entries) ==
    UNION {LET entry == entries[i]
               inner(es) == {DictGet(es[j], "step") :
                                j \in {j \in 1..Len(es) : "step" \in DictKeys(es[j])}}
           IN  IF "step" \in DictKeys(entry) THEN {DictGet(entry, "step")}
               ELSE IF "parallel" \in DictKeys(entry)
               THEN inner(DictGet(entry, "parallel").v)
               ELSE IF "stepGroup" \in DictKeys(entry)
               THEN inner(DictGet(DictGet(entry, "stepGroup"), "steps").v)
               ELSE {} : i \in 1..Len(entries)}

StageSteps ==
    DictGet(DictGet(DictGet(DictGet(args.stages_dict, "s1"), "spec"), "execution"),
            "steps").v

HasKey(step, step_key) ==
    \E field \in {"type", "name", "identifier"} :
        SameIgnoringCase(DictGet(step, field).v, step_key)

NotFoundRecords(step_key) ==
    {i \in 1..Len(ret.val) :
        /\ ret.val[i].step_key = step_key
        /\ ret.val[i].property = PyNone}

StepsOver == fn = "validate_steps_in_stage" /\ ret.kind # "pending"

\* ------------------------------------------------------------------------
\* C24: in validate_steps_in_stage, for the stage whose identifier matches
\* stage_id, a step key of step_context is found when any step of the
\* stage, at any nesting of parallel blocks and step groups, has that
\* type, name or identifier case-insensitively; for each step key not
\* found exactly one record with property, expected and actual all None
\* is added and no property of it is checked.
\* ------------------------------------------------------------------------
C24_FoundAtAnyNesting ==
    StepsOver =>
        /\ ret.kind = "return"
        /\ \A i \in 1..Len(args.step_context.v) :
               LET step_key == args.step_context.v[i].key
                   records == {j \in 1..Len(ret.val) : ret.val[j].step_key = step_key}
               IN  IF \E step \in AllSteps(StageSteps) : HasKey(step, step_key)
                   THEN NotFoundRecords(step_key) = {}
                   ELSE /\ Cardinality(records) = 1
                        /\ \A j \in records :
                               /\ ret.val[j].property = PyNone
                               /\ ret.val[j].expected = PyNone
                               /\ ret.val[j].actual = PyNone

\* the same with the steps the code looks at: those at the top and those
\* directly inside one parallel block or one step group
C24_FoundOneLevelDown ==
    StepsOver =>
        /\ ret.kind = "return"
        /\ \A i \in 1..Len(args.step_context.v) :
               LET step_key == args.step_context.v[i].key
                   records == {j \in 1..Len(ret.val) : ret.val[j].step_key = step_key}
               IN  IF \E step \in ShallowSteps(StageSteps) : HasKey(step, step_key)
                   THEN NotFoundRecords(step_key) = {}
                   ELSE /\ Cardinality(records) = 1
                        /\ \A j \in records :
                               /\ ret.val[j].property = PyNone
                               /\ ret.val[j].expected = PyNone
                               /\ ret.val[j].actual = PyNone

\* a step inside a parallel block inside a step group is reported as not
\* found
C24_NestedStepNotFound ==
    /\ StepsOver
    /\ ret.kind = "return"
    /\ \E i \in 1..Len(args.step_context.v) :
           /\ \E step \in AllSteps(StageSteps) : HasKey(step, args.step_context.v[i].key)
           /\ NotFoundRecords(args.step_context.v[i].key) # {}
====
